---- MODULE Spec2Model ----
(***************************************************************************)
(* Model of the election analysis tool: the validation layer               *)
(* (src/src/data_validation.py), the processing and scenario-analysis      *)
(* layer (src/src/data_processing.py), the analysis run (main2.py) and the *)
(* vote-count processor with its cache (src/src/election_processor.py).    *)
(*                                                                         *)
(* A DataFrame is a record [cols, rows]: cols is the set of column names,  *)
(* rows the sequence of rows in index order (a RangeIndex), each row a     *)
(* function from cols to cell values.  Percentages are fixed-point numbers *)
(* in thousandths of a percentage point (46.8 is 46800), so that rounding  *)
(* to two decimals is a real operation; electoral votes are integers.      *)
(* A Python dict is a function whose domain is its set of keys.            *)
(*                                                                         *)
(* df and result are the table (or, for the trend analysis, the time      *)
(* series) an analysis works on and the outcome of the last call; run is   *)
(* the position of ElectionAnalysis.run (main2.py);                        *)
(* input_file, cache_file, now and processor are the input file, the cache *)
(* file, the clock and the ElectionDataProcessor instance of               *)
(* src/src/election_processor.py.                                          *)
(***************************************************************************)
EXTENDS Integers, Sequences, FiniteSets, TLC

VARIABLES df, result, run, input_file, cache_file, now, processor

vars == <<df, result, run, input_file, cache_file, now, processor>>

\* The state of the analysis run and the state of the election processor
\* with its files.
runVars == <<run>>
cacheVars == <<input_file, cache_file, now, processor>>

----------------------------------------------------------------------------
(* Bounds of the model *)

MaxRows == 3

----------------------------------------------------------------------------
(* Arithmetic helpers *)

Milli(whole, frac) == whole * 1000 + frac

Abs(x) == IF x < 0 THEN 0 - x ELSE x

RECURSIVE SumSeq(_)
SumSeq(s) == IF s = <<>> THEN 0 ELSE Head(s) + SumSeq(Tail(s))

Column(d, c) == [i \in 1..Len(d.rows) |-> d.rows[i][c]]

\* num/den rounded to the nearest integer, halves to the even neighbour
\* (numpy.rint); den > 0.  A binary float that stands for an exact decimal
\* half may fall on either side of it; the input tables hold no such value.
RintDiv(num, den) ==
    LET q == num \div den
        r == num % den
    IN  IF 2 * r < den THEN q
        ELSE IF 2 * r > den THEN q + 1
        ELSE IF q % 2 = 0 THEN q ELSE q + 1

\* Series.round(decimals) applied to the value num/den thousandths: the
\* result is a multiple of 10^(3 - decimals) thousandths.
RoundFrac(num, den, decimals) ==
    LET unit == IF decimals = 0 THEN 1000
                ELSE IF decimals = 1 THEN 100
                ELSE IF decimals = 2 THEN 10 ELSE 1
    IN  RintDiv(num, den * unit) * unit

Round(x, decimals) == RoundFrac(x, 1, decimals)

----------------------------------------------------------------------------
(* Configuration *)

\* ValidationConfig with its default values; total overrides
\* total_electoral_votes.
ValidationConfig(total) ==
    [min_percentage        |-> Milli(0, 0),
     max_percentage        |-> Milli(100, 0),
     total_electoral_votes |-> total,
     percentage_sum_min    |-> Milli(94, 0),
     percentage_sum_max    |-> Milli(100, 0),
     required_columns      |-> {"Staat", "Harris", "Trump", "Wahlleute"}]

DefaultTotalElectoralVotes == 536

DefaultValidationConfig == ValidationConfig(DefaultTotalElectoralVotes)

\* The configurations a validator is constructed with: the default one and
\* one whose target is the 538 of the electoral college.
ValidationConfigs == {DefaultValidationConfig, ValidationConfig(538)}

\* ProcessingConfig with its default values; threshold overrides
\* close_race_threshold.
ProcessingConfig(threshold) ==
    [margin_of_error      |-> Milli(2, 0),
     close_race_threshold |-> threshold,
     window_size          |-> 7,
     rounding_decimals    |-> 2,
     min_data_points      |-> 3]

DefaultProcessingConfig == ProcessingConfig(Milli(1, 0))

ProcessingConfigs == {DefaultProcessingConfig, ProcessingConfig(Milli(0, 500))}

MajorityThreshold == 270

ElectoralCollegeSize == 538
----------------------------------------------------------------------------
(* Input tables *)

BaseColumns == {"Staat", "Harris", "Trump", "Wahlleute"}

Row(staat, harris, trump, wahlleute) ==
    [Staat |-> staat, Harris |-> harris, Trump |-> trump, Wahlleute |-> wahlleute]

\* The rows input tables are built from: the three rows of the sample table
\* of the tests, a tie, a margin of exactly 1.0, a percentage outside
\* [0,100], a percentage sum below 94, and an unknown state whose lead
\* rounds to 0.00 and that has no electoral votes.
InputRows ==
    { Row("Arizona",   Milli(46, 800), Milli(48, 200), 11),
      Row("Georgia",   Milli(47, 300), Milli(48, 200), 16),
      Row("Michigan",  Milli(47, 600), Milli(47, 0),   15),
      Row("Nevada",    Milli(47, 0),   Milli(47, 0),   268),
      Row("Wisconsin", Milli(48, 0),   Milli(47, 0),   268),
      Row("Ohio",      0 - Milli(1, 0), Milli(96, 0),  269),
      Row("Texas",     Milli(46, 806), Milli(47, 0),   270),
      Row("Atlantis",  Milli(47, 4),   Milli(47, 0),   0) }

SeqsUpTo(S, n) == UNION {[1..k -> S] : k \in 0..n}

Project(row, cols) == [c \in cols |-> row[c]]

\* The table with the given rows and only the given columns.
MakeTable(rows, cols) ==
    [cols |-> cols, rows |-> [i \in 1..Len(rows) |-> Project(rows[i], cols)]]

\* The rows the tables that lack a column are built from: a valid row, the
\* one with a percentage outside [0,100] and the one with an unknown state.
IncompleteRows ==
    {r \in InputRows : r.Staat \in {"Georgia", "Ohio", "Atlantis"}}

\* A loaded table has all four base columns or lacks one of them.
InputTables ==
    {MakeTable(rows, BaseColumns) : rows \in SeqsUpTo(InputRows, MaxRows)}
    \cup
    {MakeTable(rows, BaseColumns \ {c}) :
        rows \in SeqsUpTo(IncompleteRows, MaxRows), c \in BaseColumns}

\* The sample table of the tests (fixture sample_data).
sample_data ==
    MakeTable(<< Row("Arizona",  Milli(46, 800), Milli(48, 200), 11),
                 Row("Georgia",  Milli(47, 300), Milli(48, 200), 16),
                 Row("Michigan", Milli(47, 600), Milli(47, 0),   15) >>,
              BaseColumns)

\* DataFrame.empty: an axis of length 0.
IsEmpty(d) == d.cols = {} \/ Len(d.rows) = 0

NoResult == [op |-> "none", raised |-> ""]

\* The program is single-threaded: a call starts after the previous one has
\* returned and its outcome has been taken by the caller.
Idle == result = NoResult

----------------------------------------------------------------------------
(* DataValidator *)

EmptyDict == [k \in {} |-> 0]

validate_percentages(values, config) ==
    LET invalid_values ==
            SelectSeq(values,
                      LAMBDA x : ~(config.min_percentage <= x
                                   /\ x <= config.max_percentage))
    IN  [is_valid |-> Len(invalid_values) = 0, invalid_values |-> invalid_values]

\* Variant: a total above the target is accepted too.
validate_electoral_votes_atleast(votes, config) ==
    LET total_votes == SumSeq(votes)
    IN  [is_valid |-> total_votes >= config.total_electoral_votes,
         total_votes |-> total_votes]

validate_electoral_votes(votes, config) ==
    LET total_votes == SumSeq(votes)
    IN  [is_valid |-> total_votes = config.total_electoral_votes,
         total_votes |-> total_votes]

\* Variant: the electoral votes are examined only when the percentages
\* are in range.
validate_dataframe_stop_at_first(d, config) ==
    LET missing_columns == config.required_columns \ d.cols
    IN  IF missing_columns # {}
        THEN [is_valid |-> FALSE,
              errors |-> ("missing_columns" :> missing_columns)]
        ELSE LET harris == validate_percentages(Column(d, "Harris"), config)
                 trump  == validate_percentages(Column(d, "Trump"), config)
                 votes  == validate_electoral_votes(Column(d, "Wahlleute"), config)
                 validation_results ==
                     IF ~(harris.is_valid /\ trump.is_valid)
                     THEN "invalid_percentages" :>
                              [Harris |-> harris.invalid_values,
                               Trump  |-> trump.invalid_values]
                     ELSE IF ~votes.is_valid
                     THEN "invalid_votes" :> votes.total_votes
                     ELSE EmptyDict
             IN  [is_valid |-> DOMAIN validation_results = {},
                  errors |-> validation_results]

\* The except branch of the source is reached only by cells that are not
\* numbers; every cell of a modelled table is a number.
validate_dataframe(d, config) ==
    LET missing_columns == config.required_columns \ d.cols
    IN  IF missing_columns # {}
        THEN [is_valid |-> FALSE,
              errors |-> ("missing_columns" :> missing_columns)]
        ELSE LET harris == validate_percentages(Column(d, "Harris"), config)
                 trump  == validate_percentages(Column(d, "Trump"), config)
                 votes  == validate_electoral_votes(Column(d, "Wahlleute"), config)
                 r1 == IF ~(harris.is_valid /\ trump.is_valid)
                       THEN "invalid_percentages" :>
                                [Harris |-> harris.invalid_values,
                                 Trump  |-> trump.invalid_values]
                       ELSE EmptyDict
                 r2 == IF ~votes.is_valid
                       THEN "invalid_votes" :> votes.total_votes
                       ELSE EmptyDict
                 validation_results == r1 @@ r2
             IN  [is_valid |-> DOMAIN validation_results = {},
                  errors |-> validation_results]

----------------------------------------------------------------------------
(* ExtendedDataValidator *)

VALID_STATES ==
    {"Alabama", "Alaska", "Arizona", "Arkansas", "California", "Colorado",
     "Connecticut", "Delaware", "Florida", "Georgia", "Hawaii", "Idaho",
     "Illinois", "Indiana", "Iowa", "Kansas", "Kentucky", "Louisiana",
     "Maine", "Maryland", "Massachusetts", "Michigan", "Minnesota",
     "Mississippi", "Missouri", "Montana", "Nebraska", "Nevada",
     "New Hampshire", "New Jersey", "New Mexico", "New York",
     "North Carolina", "North Dakota", "Ohio", "Oklahoma", "Oregon",
     "Pennsylvania", "Rhode Island", "South Carolina", "South Dakota",
     "Tennessee", "Texas", "Utah", "Vermont", "Virginia", "Washington",
     "West Virginia", "Wisconsin", "Wyoming", "District of Columbia"}

validate_state_names(states) ==
    LET invalid_states == {states[i] : i \in DOMAIN states} \ VALID_STATES
    IN  [is_valid |-> invalid_states = {}, invalid_states |-> invalid_states]

validate_sum_to_hundred(row, config) ==
    LET total == row["Harris"] + row["Trump"]
    IN  [is_valid |-> config.percentage_sum_min <= total
                      /\ total <= config.percentage_sum_max,
         total |-> total]

\* df["Staat"] raises KeyError when the column is absent, and so does
\* row["Harris"] + row["Trump"] for the first row of the loop.
validate_dataframe_extended(d, config) ==
    LET base == validate_dataframe(d, config)
        e1 == IF ~base.is_valid THEN "base_validation" :> base.errors
              ELSE EmptyDict
    IN  IF "Staat" \notin d.cols
        THEN [raised |-> "KeyError"]
        ELSE IF Len(d.rows) > 0 /\ ~({"Harris", "Trump"} \subseteq d.cols)
        THEN [raised |-> "KeyError"]
        ELSE LET states == validate_state_names(Column(d, "Staat"))
                 e2 == IF ~states.is_valid
                       THEN "invalid_states" :> states.invalid_states
                       ELSE EmptyDict
                 bad == SelectSeq(d.rows,
                            LAMBDA row : ~validate_sum_to_hundred(row, config).is_valid)
                 invalid_sums ==
                     [i \in 1..Len(bad) |->
                         [state  |-> bad[i]["Staat"],
                          total  |-> validate_sum_to_hundred(bad[i], config).total,
                          harris |-> bad[i]["Harris"],
                          trump  |-> bad[i]["Trump"]]]
                 e3 == IF Len(invalid_sums) > 0
                       THEN "invalid_sums" :> invalid_sums
                       ELSE EmptyDict
                 errors == e1 @@ e2 @@ e3
             IN  [raised |-> "", is_valid |-> DOMAIN errors = {}, errors |-> errors]

----------------------------------------------------------------------------
(* Operations of the validator *)

\* validator = DataValidator(config); validator.validate_electoral_votes(votes)
\* on the electoral-vote column of the table.
ValidateElectoralVotes ==
    /\ Idle
    /\ "Wahlleute" \in df.cols
    /\ \E config \in ValidationConfigs :
          LET r == validate_electoral_votes(Column(df, "Wahlleute"), config)
          IN  result' = [op |-> "validate_electoral_votes", raised |-> "",
                         config |-> config, is_valid |-> r.is_valid,
                         total_votes |-> r.total_votes]
    /\ UNCHANGED <<df, runVars, cacheVars>>

ValidateDataframe ==
    /\ Idle
    /\ \E config \in ValidationConfigs :
          LET r == validate_dataframe(df, config)
          IN  result' = [op |-> "validate_dataframe", raised |-> "",
                         config |-> config, is_valid |-> r.is_valid,
                         errors |-> r.errors]
    /\ UNCHANGED <<df, runVars, cacheVars>>

ValidateDataframeExtended ==
    /\ Idle
    /\ \E config \in ValidationConfigs :
          LET r == validate_dataframe_extended(df, config)
          IN  result' = IF r.raised # ""
                        THEN [op |-> "validate_dataframe_extended",
                              raised |-> r.raised, config |-> config]
                        ELSE [op |-> "validate_dataframe_extended", raised |-> "",
                              config |-> config, is_valid |-> r.is_valid,
                              errors |-> r.errors]
    /\ UNCHANGED <<df, runVars, cacheVars>>

----------------------------------------------------------------------------
(* DataProcessor *)

\* DataProcessor._validate_data: "" when the table passes, else the
\* exception raised.
DataProcessor_validate_data(d, required_columns) ==
    IF IsEmpty(d) THEN "DataError"
    ELSE IF required_columns \ d.cols # {} THEN "DataError"
    ELSE ""

\* The table with column c set to the given values, one per row: the
\* column is added when absent and overwritten when present.
WithColumn(d, c, values) ==
    [cols |-> d.cols \cup {c},
     rows |-> [i \in 1..Len(d.rows) |->
                  [k \in d.cols \cup {c} |->
                      IF k = c THEN values[i] ELSE d.rows[i][k]]]]

\* Variant: the difference is stored without rounding.
calculate_leads_unrounded(d, config) ==
    IF DataProcessor_validate_data(d, {"Harris", "Trump"}) # ""
    THEN [raised |-> "CalculationError", cause |-> "DataError"]
    ELSE [raised |-> "",
          result_df |->
              WithColumn(d, "Führung",
                  [i \in 1..Len(d.rows) |->
                      d.rows[i]["Harris"] - d.rows[i]["Trump"]])]

\* Every exception inside the try block, the DataError of _validate_data
\* included, leaves the method as a CalculationError.
calculate_leads(d, config) ==
    IF DataProcessor_validate_data(d, {"Harris", "Trump"}) # ""
    THEN [raised |-> "CalculationError", cause |-> "DataError"]
    ELSE [raised |-> "",
          result_df |->
              WithColumn(d, "Führung",
                  [i \in 1..Len(d.rows) |->
                      Round(d.rows[i]["Harris"] - d.rows[i]["Trump"],
                            config.rounding_decimals)])]

\* Wahlleute * (candidate / 100) / total_votes * 100, in thousandths, is
\* Wahlleute * candidate / total_votes.
WeightedShare(row, candidate, total_votes, config) ==
    IF total_votes > 0
    THEN RoundFrac(row["Wahlleute"] * row[candidate], total_votes,
                   config.rounding_decimals)
    ELSE RoundFrac(0 - row["Wahlleute"] * row[candidate], 0 - total_votes,
                   config.rounding_decimals)

\* Variant: a share column that is already there is normalised again,
\* instead of being recomputed from the candidate's base column.
calculate_percentages_chained(d, config) ==
    IF DataProcessor_validate_data(d, {"Harris", "Trump", "Wahlleute"}) # ""
    THEN [raised |-> "CalculationError", cause |-> "DataError"]
    ELSE LET total_votes == SumSeq(Column(d, "Wahlleute"))
             Src(c) == IF (c \o "_Anteil") \in d.cols THEN c \o "_Anteil" ELSE c
         IN  IF total_votes = 0
             THEN [raised |-> "CalculationError", cause |-> "CalculationError"]
             ELSE [raised |-> "",
                   result_df |->
                       WithColumn(
                           WithColumn(d, "Harris_Anteil",
                               [i \in 1..Len(d.rows) |->
                                   WeightedShare(d.rows[i], Src("Harris"),
                                                 total_votes, config)]),
                           "Trump_Anteil",
                           [i \in 1..Len(d.rows) |->
                               WeightedShare(d.rows[i], Src("Trump"),
                                             total_votes, config)])]

calculate_percentages(d, config) ==
    IF DataProcessor_validate_data(d, {"Harris", "Trump", "Wahlleute"}) # ""
    THEN [raised |-> "CalculationError", cause |-> "DataError"]
    ELSE LET total_votes == SumSeq(Column(d, "Wahlleute"))
         IN  IF total_votes = 0
             THEN [raised |-> "CalculationError", cause |-> "CalculationError"]
             ELSE [raised |-> "",
                   result_df |->
                       WithColumn(
                           WithColumn(d, "Harris_Anteil",
                               [i \in 1..Len(d.rows) |->
                                   WeightedShare(d.rows[i], "Harris",
                                                 total_votes, config)]),
                           "Trump_Anteil",
                           [i \in 1..Len(d.rows) |->
                               WeightedShare(d.rows[i], "Trump",
                                             total_votes, config)])]

----------------------------------------------------------------------------
(* ExtendedDataProcessor.analyze_electoral_scenarios *)

\* The orders in which n rows can come out: the permutations of 1..n.
RowOrders(n) == Permutations(1..n)

\* df.sort_values(by="Führung"): the row positions in ascending order of
\* lead.  The default sort kind (quicksort) is not a stable sort, so rows of
\* equal lead may come out in any relative order.
SortedOrders(d) ==
    {p \in RowOrders(Len(d.rows)) :
        \A i \in 1..(Len(d.rows) - 1) :
            d.rows[p[i]]["Führung"] <= d.rows[p[i + 1]]["Führung"]}

CumSum_not_cumulative(d, order) ==
    [k \in 1..Len(order) |-> d.rows[order[k]]["Wahlleute"]]

\* Series.cumsum over the Wahlleute column taken in the given order.
CumSum(d, order) ==
    [k \in 1..Len(order) |->
        SumSeq([j \in 1..k |-> d.rows[order[j]]["Wahlleute"]])]

\* Variant: the cumulative sum has to exceed the threshold.
IdxMax_exceeds(cumsum, threshold) ==
    IF \E k \in 1..Len(cumsum) : cumsum[k] > threshold
    THEN CHOOSE k \in 1..Len(cumsum) :
            /\ cumsum[k] > threshold
            /\ \A j \in 1..(k - 1) : cumsum[j] <= threshold
    ELSE 1

\* (cumsum >= 270).idxmax(): the first position of the largest value of the
\* mask, which is the first True, or the first position when none is True.
IdxMax(cumsum, threshold) ==
    IF \E k \in 1..Len(cumsum) : cumsum[k] >= threshold
    THEN CHOOSE k \in 1..Len(cumsum) :
            /\ cumsum[k] >= threshold
            /\ \A j \in 1..(k - 1) : cumsum[j] < threshold
    ELSE 1

WahlleuteSum(rows) == SumSeq([i \in 1..Len(rows) |-> rows[i]["Wahlleute"]])

\* Variant: a tied row counts for Harris as well.
BaseVotes_ties_to_harris(d) ==
    [Harris |-> WahlleuteSum(
        SelectSeq(d.rows, LAMBDA row : row["Harris"] >= row["Trump"])),
     Trump |-> WahlleuteSum(
        SelectSeq(d.rows, LAMBDA row : row["Trump"] > row["Harris"])),
     Unentschieden |-> WahlleuteSum(
        SelectSeq(d.rows, LAMBDA row : row["Harris"] = row["Trump"]))]

\* Basisszenario: the electoral votes of the rows Harris leads, of those
\* Trump leads and of the tied ones, comparing the two columns directly.
BaseVotes(d) ==
    [Harris |-> WahlleuteSum(
        SelectSeq(d.rows, LAMBDA row : row["Harris"] > row["Trump"])),
     Trump |-> WahlleuteSum(
        SelectSeq(d.rows, LAMBDA row : row["Trump"] > row["Harris"])),
     Unentschieden |-> WahlleuteSum(
        SelectSeq(d.rows, LAMBDA row : row["Harris"] = row["Trump"]))]

\* Variant: a margin equal to the threshold counts as close.
CloseStates_inclusive(d, config) ==
    SelectSeq(d.rows, LAMBDA row : Abs(row["Harris"] - row["Trump"])
                               <= config.close_race_threshold)

\* Knappe Staaten: the rows, in table order, whose margin is below the
\* threshold.
CloseStates(d, config) ==
    SelectSeq(d.rows, LAMBDA row : Abs(row["Harris"] - row["Trump"])
                               < config.close_race_threshold)

\* The index label of the tipping-point row, given the order produced by
\* sort_values.
TippingPointIdx(d, order) ==
    order[IdxMax(CumSum(d, order), MajorityThreshold)]

\* The report: the three scenarios, computed from the table and the row
\* order sort_values produced.
Scenarios(d, config, order) ==
    LET base_votes == BaseVotes(d)
        close_states == CloseStates(d, config)
        tipping_point_idx == TippingPointIdx(d, order)
        tp == d.rows[tipping_point_idx]
    IN  [Basisszenario |->
            [Wahlleute |-> base_votes,
             Siegwahrscheinlichkeit |->
                [Harris |-> [num |-> base_votes.Harris * 100,
                             den |-> ElectoralCollegeSize],
                 Trump  |-> [num |-> base_votes.Trump * 100,
                             den |-> ElectoralCollegeSize]]],
         Knappe_Staaten |->
            [Anzahl |-> Len(close_states),
             Wahlleute |-> WahlleuteSum(close_states),
             Staaten |-> [i \in 1..Len(close_states) |->
                             close_states[i]["Staat"]],
             Durchschnittliche_Differenz |->
                [num |-> SumSeq([i \in 1..Len(close_states) |->
                            Abs(close_states[i]["Harris"]
                                - close_states[i]["Trump"])]),
                 den |-> Len(close_states)]],
         Tipping_Point |->
            ("Staat" :> tp["Staat"]) @@ ("Führung" :> tp["Führung"])
                @@ ("Wahlleute" :> tp["Wahlleute"])]

\* Variant: without the lead column, the scenarios computed before the
\* sort are returned.
analyze_electoral_scenarios_partial(d, config, order) ==
    IF ~({"Staat", "Harris", "Trump", "Wahlleute"} \subseteq d.cols)
    THEN [raised |-> "CalculationError", cause |-> "KeyError"]
    ELSE IF "Führung" \notin d.cols
    THEN [raised |-> "",
          df_sorted |-> order,
          scenarios |->
             [Basisszenario |-> [Wahlleute |-> BaseVotes(d)],
              Knappe_Staaten |-> [Anzahl |-> Len(CloseStates(d, config))]]]
    ELSE IF Len(d.rows) = 0
    THEN [raised |-> "CalculationError", cause |-> "ValueError"]
    ELSE [raised |-> "",
          df_sorted |-> order,
          scenarios |-> Scenarios(d, config, order)]

\* A KeyError for an absent column and the ValueError of idxmax on an empty
\* series both leave the method as a CalculationError, and the scenarios
\* computed up to there are dropped with the local dict that held them;
\* order is the row order sort_values produced.
analyze_electoral_scenarios(d, config, order) ==
    IF ~({"Staat", "Harris", "Trump", "Wahlleute", "Führung"} \subseteq d.cols)
    THEN [raised |-> "CalculationError", cause |-> "KeyError"]
    ELSE IF Len(d.rows) = 0
    THEN [raised |-> "CalculationError", cause |-> "ValueError"]
    ELSE [raised |-> "",
          df_sorted |-> order,
          scenarios |-> Scenarios(d, config, order)]

----------------------------------------------------------------------------
(* Winning probability and regional analysis (ExtendedDataProcessor) *)

\* A float statistic as the fraction num/den; den = 0 stands for nan, which
\* is what pandas returns for the mean, median, maximum or minimum of no
\* values and numpy for 0/0.
Frac(num, den) == [num |-> num, den |-> den]

Mean(values) == Frac(SumSeq(values), Len(values))

\* Series.median: the middle value, or the mean of the two middle values.
Median(values) ==
    LET s == SortSeq(values, LAMBDA a, b : a < b)
        n == Len(values)
    IN  IF n = 0 THEN Frac(0, 0)
        ELSE IF n % 2 = 1 THEN Frac(s[(n + 1) \div 2], 1)
        ELSE Frac(s[n \div 2] + s[n \div 2 + 1], 2)

MaxOf(values) ==
    IF values = <<>> THEN Frac(0, 0)
    ELSE Frac(CHOOSE v \in {values[i] : i \in 1..Len(values)} :
                 \A i \in 1..Len(values) : values[i] <= v, 1)

MinOf(values) ==
    IF values = <<>> THEN Frac(0, 0)
    ELSE Frac(CHOOSE v \in {values[i] : i \in 1..Len(values)} :
                 \A i \in 1..Len(values) : values[i] >= v, 1)

\* Series.std, the sample standard deviation: a square root, kept as the
\* term "sample standard deviation of these values"; nan below two values.
Std(values) ==
    [nan |-> Len(values) < 2,
     sample_std_of |-> SortSeq(values, LAMBDA a, b : a < b)]

\* An optional float argument: omitted (None) or given with a value.
Omitted == [given |-> FALSE, value |-> 0]
Given(value) == [given |-> TRUE, value |-> value]
MarginArguments == {Omitted, Given(0), Given(Milli(1, 0))}

\* margin_of_error or self.config.margin_of_error: None and 0 are both
\* falsy and give way to the configured margin.
EffectiveMargin(margin_of_error, config) ==
    IF ~margin_of_error.given \/ margin_of_error.value = 0
    THEN config.margin_of_error
    ELSE margin_of_error.value

\* Führung / (margin / 1.96) in units of 0.0001; exact for a lead in
\* hundredths and the margins 1.0 and 2.0.
Z_Score_unrounded_lead(row, margin) ==
    RintDiv((row["Harris"] - row["Trump"]) * 19600, margin)

Z_Score(row, margin) == RintDiv(row["Führung"] * 19600, margin)

\* scipy.stats.norm.cdf in units of 1e-7, for a z-score in units of 0.0001:
\* the values of the standard normal distribution function at the z-scores
\* that the leads of the input rows and the margins produce; beyond six
\* standard deviations it is 0 or 1 at this resolution.
NormCdfTable ==
    (-27440 :> 30348) @@ (-17640 :> 388660) @@ (-13720 :> 850317)
    @@ (-8820 :> 1888884) @@ (-3802 :> 3518985) @@ (-3724 :> 3547975)
    @@ (-1901 :> 4246154) @@ (-1862 :> 4261440) @@ (0 :> 5000000)
    @@ (39 :> 5015559) @@ (78 :> 5031117) @@ (5880 :> 7217339)
    @@ (9800 :> 8364569) @@ (11760 :> 8802026) @@ (19600 :> 9750021)

norm_cdf(z) ==
    IF z <= -60000 THEN 0
    ELSE IF z >= 60000 THEN 10000000
    ELSE NormCdfTable[z]

\* (norm.cdf(Z_Score) * 100).round(rounding_decimals), in thousandths of a
\* percentage point.
Harris_Gewinnchance(z, config) ==
    RoundFrac(norm_cdf(z), 100, config.rounding_decimals)

Trump_Gewinnchance_uncomplemented(harris_gewinnchance, config) ==
    Round(harris_gewinnchance, config.rounding_decimals)

\* (100 - Harris_Gewinnchance).round(rounding_decimals)
Trump_Gewinnchance(harris_gewinnchance, config) ==
    Round(Milli(100, 0) - harris_gewinnchance, config.rounding_decimals)

\* The summary's Zeitpunkt (datetime.now()) is left out.  The total chances
\* are sums weighted by electoral votes over the electoral-vote sum, nan for
\* a sum of 0.  A failure of calculate_leads or a missing Wahlleute column
\* leaves the method as a CalculationError.
calculate_winning_probability(d, margin_of_error, config) ==
    LET leads == calculate_leads(d, config)
    IN  IF leads.raised # ""
        THEN [raised |-> "CalculationError", cause |-> leads.raised]
        ELSE
        LET margin == EffectiveMargin(margin_of_error, config)
            l == leads.result_df
            n == Len(l.rows)
            z == [i \in 1..n |-> Z_Score(l.rows[i], margin)]
            harris == [i \in 1..n |-> Harris_Gewinnchance(z[i], config)]
            trump == [i \in 1..n |-> Trump_Gewinnchance(harris[i], config)]
            result_df ==
                WithColumn(WithColumn(WithColumn(l, "Z_Score", z),
                                      "Harris_Gewinnchance", harris),
                           "Trump_Gewinnchance", trump)
        IN  IF "Wahlleute" \notin d.cols
            THEN [raised |-> "CalculationError", cause |-> "KeyError"]
            ELSE
            [raised |-> "",
             result_df |-> result_df,
             summary |->
                [Harris_Gesamt_Chance |->
                    Frac(SumSeq([i \in 1..n |->
                            harris[i] * l.rows[i]["Wahlleute"]]),
                         SumSeq(Column(l, "Wahlleute"))),
                 Trump_Gesamt_Chance |->
                    Frac(SumSeq([i \in 1..n |->
                            trump[i] * l.rows[i]["Wahlleute"]]),
                         SumSeq(Column(l, "Wahlleute")))]
                @@ ("Durchschnittliche_Führung" :> Mean(Column(l, "Führung")))
                @@ ("Median_Führung" :> Median(Column(l, "Führung")))]

\* REGIONS: the four fixed regions and their states.
REGIONS ==
    ("Nordosten" :>
        {"Maine", "New Hampshire", "Vermont", "Massachusetts",
         "Rhode Island", "Connecticut", "New York", "New Jersey",
         "Pennsylvania"})
    @@ ("Mittlerer_Westen" :>
        {"Ohio", "Indiana", "Illinois", "Michigan", "Wisconsin",
         "Minnesota", "Iowa", "Missouri", "North Dakota", "South Dakota",
         "Nebraska", "Kansas"})
    @@ ("Süden" :>
        {"Delaware", "Maryland", "Virginia", "West Virginia",
         "North Carolina", "South Carolina", "Georgia", "Florida",
         "Kentucky", "Tennessee", "Alabama", "Mississippi", "Arkansas",
         "Louisiana", "Oklahoma", "Texas"})
    @@ ("Westen" :>
        {"Montana", "Idaho", "Wyoming", "Colorado", "New Mexico", "Arizona",
         "Utah", "Nevada", "California", "Oregon", "Washington", "Alaska",
         "Hawaii"})

\* regional_df = df[df["Staat"].isin(states)]
RegionalDf(d, region) ==
    [cols |-> d.cols,
     rows |-> SelectSeq(d.rows, LAMBDA row : row["Staat"] \in REGIONS[region])]

ReportedRegions_all(d) == DOMAIN REGIONS

\* The regions that are not skipped: those whose regional_df is not empty.
ReportedRegions(d) ==
    {region \in DOMAIN REGIONS : ~IsEmpty(RegionalDf(d, region))}

Fuehrender_ties_to_harris(regional_df) ==
    IF SumSeq(Column(regional_df, "Harris"))
           >= SumSeq(Column(regional_df, "Trump"))
    THEN "Harris" ELSE "Trump"

\* "Harris" if the mean of Harris is greater than the mean of Trump, else
\* "Trump"; both means are over the same rows.
Fuehrender(regional_df) ==
    IF SumSeq(Column(regional_df, "Harris"))
           > SumSeq(Column(regional_df, "Trump"))
    THEN "Harris" ELSE "Trump"

RegionStats(regional_df, config) ==
    [Durchschnitt_Harris |-> Mean(Column(regional_df, "Harris")),
     Durchschnitt_Trump |-> Mean(Column(regional_df, "Trump")),
     Median_Harris |-> Median(Column(regional_df, "Harris")),
     Median_Trump |-> Median(Column(regional_df, "Trump")),
     Wahlleute_Gesamt |-> SumSeq(Column(regional_df, "Wahlleute")),
     Anzahl_Staaten |-> Len(regional_df.rows),
     Standardabweichung_Harris |-> Std(Column(regional_df, "Harris")),
     Standardabweichung_Trump |-> Std(Column(regional_df, "Trump")),
     Knappe_Staaten |-> Len(CloseStates(regional_df, config))]
    @@ ("Führender" :> Fuehrender(regional_df))
    @@ ("Max_Führung" :> MaxOf(Column(regional_df, "Führung")))
    @@ ("Min_Führung" :> MinOf(Column(regional_df, "Führung")))

\* A KeyError leaves the method as a CalculationError: for an absent Staat
\* column at the first region, for another absent column at the first
\* region that is not skipped.
regional_analysis(d, config) ==
    IF "Staat" \notin d.cols
    THEN [raised |-> "CalculationError", cause |-> "KeyError"]
    ELSE IF /\ ReportedRegions(d) # {}
            /\ ~({"Harris", "Trump", "Wahlleute", "Führung"} \subseteq d.cols)
    THEN [raised |-> "CalculationError", cause |-> "KeyError"]
    ELSE [raised |-> "",
          regional_results |->
             [region \in ReportedRegions(d) |->
                 RegionStats(RegionalDf(d, region), config)]]

----------------------------------------------------------------------------
(* Operations of the processor *)

\* df = processor.calculate_leads(df), as in ElectionAnalysis.process_data;
\* an exception leaves df as it was.
CalculateLeads ==
    LET r == calculate_leads(df, DefaultProcessingConfig)
    IN  /\ Idle
        /\ IF r.raised # ""
           THEN /\ result' = [op |-> "calculate_leads", raised |-> r.raised,
                              cause |-> r.cause, input |-> df]
                /\ UNCHANGED df
           ELSE /\ result' = [op |-> "calculate_leads", raised |-> "",
                              input |-> df]
                /\ df' = r.result_df
        /\ UNCHANGED <<runVars, cacheVars>>

CalculatePercentages ==
    LET r == calculate_percentages(df, DefaultProcessingConfig)
    IN  /\ Idle
        /\ IF r.raised # ""
           THEN /\ result' = [op |-> "calculate_percentages",
                              raised |-> r.raised, cause |-> r.cause,
                              input |-> df]
                /\ UNCHANGED df
           ELSE /\ result' = [op |-> "calculate_percentages", raised |-> "",
                              input |-> df]
                /\ df' = r.result_df
        /\ UNCHANGED <<runVars, cacheVars>>

AnalyzeElectoralScenarios ==
    /\ Idle
    /\ \E config \in ProcessingConfigs :
       \E order \in (IF "Führung" \in df.cols THEN SortedOrders(df) ELSE {<<>>}) :
          LET r == analyze_electoral_scenarios(df, config, order)
          IN  result' = IF r.raised # ""
                        THEN [op |-> "analyze_electoral_scenarios",
                              raised |-> r.raised, cause |-> r.cause]
                        ELSE [op |-> "analyze_electoral_scenarios", raised |-> "",
                              config |-> config, df_sorted |-> r.df_sorted,
                              scenarios |-> r.scenarios]
    /\ UNCHANGED <<df, runVars, cacheVars>>

\* processor.calculate_winning_probability(df, margin_of_error): the table
\* with the probability columns and the summary are returned, df is not
\* assigned.
CalculateWinningProbability ==
    /\ Idle
    /\ \E margin_of_error \in MarginArguments :
          LET r == calculate_winning_probability(df, margin_of_error,
                                                 DefaultProcessingConfig)
          IN  result' = IF r.raised # ""
                        THEN [op |-> "calculate_winning_probability",
                              raised |-> r.raised, cause |-> r.cause]
                        ELSE [op |-> "calculate_winning_probability",
                              raised |-> "",
                              margin_of_error |-> margin_of_error,
                              result_df |-> r.result_df,
                              summary |-> r.summary]
    /\ UNCHANGED <<df, runVars, cacheVars>>

\* processor.regional_analysis(df)
RegionalAnalysis ==
    /\ Idle
    /\ \E config \in ProcessingConfigs :
          LET r == regional_analysis(df, config)
          IN  result' = IF r.raised # ""
                        THEN [op |-> "regional_analysis",
                              raised |-> r.raised, cause |-> r.cause]
                        ELSE [op |-> "regional_analysis", raised |-> "",
                              config |-> config,
                              regional_results |-> r.regional_results]
    /\ UNCHANGED <<df, runVars, cacheVars>>

\* The caller has taken the outcome of the last call (a returned value or a
\* raised exception) and goes on with the table as it is.
Continue ==
    /\ ~Idle
    /\ result' = NoResult
    /\ UNCHANGED <<df, runVars, cacheVars>>

----------------------------------------------------------------------------
(* ElectionAnalysis.run (main2.py): load, validate, process, visualize *)

\* The state of a run: where it stands, the methods invoked so far in
\* order, the validation configuration of the instance, whether df has been
\* assigned (it is None before load_data), what validate_data returned.
Run(pc, validation_config) ==
    [pc |-> pc, calls |-> <<>>, validation_config |-> validation_config,
     loaded |-> FALSE, is_valid |-> "not_validated"]

\* No run of ElectionAnalysis is under way.
NotStarted == Run("not_started", DefaultValidationConfig)

\* self.df = None
NoTable == [cols |-> {}, rows |-> <<>>]

AfterValidation_goes_on(is_valid) == "process_data"

\* if not self.validate_data(): return
AfterValidation(is_valid) ==
    IF ~is_valid THEN "returned" ELSE "process_data"

\* ElectionAnalysis.validate_data: False for no table or an invalid one; an
\* exception of the validator is not caught here.
ElectionAnalysis_validate_data(loaded, d, config) ==
    IF ~loaded THEN [raised |-> "", is_valid |-> FALSE]
    ELSE LET r == validate_dataframe_extended(d, config)
         IN  IF r.raised # "" THEN [raised |-> r.raised, is_valid |-> FALSE]
             ELSE [raised |-> "", is_valid |-> r.is_valid]

\* ElectionAnalysis.process_data: self.df is assigned after calculate_leads
\* and again after calculate_percentages, so an exception of a later step
\* leaves the table of the steps before it; calls lists the processor
\* methods invoked, order is the row order sort_values produces.
ElectionAnalysis_process_data(loaded, d, order) ==
    IF ~loaded
    THEN [raised |-> "ValueError", df |-> d, calls |-> <<>>]
    ELSE
    LET leads == calculate_leads(d, DefaultProcessingConfig)
    IN  IF leads.raised # ""
        THEN [raised |-> leads.raised, df |-> d,
              calls |-> <<"calculate_leads">>]
        ELSE
        LET pct == calculate_percentages(leads.result_df,
                                         DefaultProcessingConfig)
        IN  IF pct.raised # ""
            THEN [raised |-> pct.raised, df |-> leads.result_df,
                  calls |-> <<"calculate_leads", "calculate_percentages">>]
            ELSE
            LET scen == analyze_electoral_scenarios(pct.result_df,
                            DefaultProcessingConfig, order)
                reg == regional_analysis(pct.result_df,
                                         DefaultProcessingConfig)
            IN  IF scen.raised # ""
                THEN [raised |-> scen.raised, df |-> pct.result_df,
                      calls |-> <<"calculate_leads", "calculate_percentages",
                                  "analyze_electoral_scenarios">>]
                ELSE IF reg.raised # ""
                THEN [raised |-> reg.raised, df |-> pct.result_df,
                      calls |-> <<"calculate_leads", "calculate_percentages",
                                  "analyze_electoral_scenarios",
                                  "regional_analysis">>]
                ELSE [raised |-> "", df |-> pct.result_df,
                      calls |-> <<"calculate_leads", "calculate_percentages",
                                  "analyze_electoral_scenarios",
                                  "regional_analysis">>,
                      scenarios |-> scen.scenarios,
                      regional_results |-> reg.regional_results]

\* The row orders sort_values can produce inside process_data.
ProcessDataOrders(loaded, d) ==
    LET leads == calculate_leads(d, DefaultProcessingConfig)
    IN  IF ~loaded \/ leads.raised # "" THEN {<<>>}
        ELSE SortedOrders(leads.result_df)

\* self.load_data(): pd.read_csv gives a table or raises (no file, no
\* columns to parse), which ends the run.
RunLoadData ==
    /\ run.pc = "load_data"
    /\ \/ /\ df' \in InputTables
          /\ run' = [run EXCEPT !.pc = "validate_data", !.loaded = TRUE,
                                !.calls = Append(@, "load_data")]
       \/ /\ run' = [run EXCEPT !.pc = "raised",
                                !.calls = Append(@, "load_data")]
          /\ UNCHANGED df
    /\ UNCHANGED <<result, cacheVars>>

\* if not self.validate_data(): return
RunValidateData ==
    /\ run.pc = "validate_data"
    /\ LET r == ElectionAnalysis_validate_data(run.loaded, df,
                                               run.validation_config)
       IN  run' = IF r.raised # ""
                  THEN [run EXCEPT !.pc = "raised",
                                   !.calls = Append(@, "validate_data")]
                  ELSE [run EXCEPT !.pc = AfterValidation(r.is_valid),
                                   !.calls = Append(@, "validate_data"),
                                   !.is_valid = IF r.is_valid THEN "True"
                                                ELSE "False"]
    /\ UNCHANGED <<df, result, cacheVars>>

\* scenarios, regional_results = self.process_data()
RunProcessData ==
    /\ run.pc = "process_data"
    /\ \E order \in ProcessDataOrders(run.loaded, df) :
          LET r == ElectionAnalysis_process_data(run.loaded, df, order)
          IN  /\ df' = r.df
              /\ run' = [run EXCEPT
                            !.pc = IF r.raised # "" THEN "raised"
                                   ELSE "create_visualizations",
                            !.calls = Append(@, "process_data") \o r.calls]
              /\ result' = IF r.raised # ""
                           THEN [op |-> "process_data", raised |-> r.raised]
                           ELSE [op |-> "process_data", raised |-> "",
                                 scenarios |-> r.scenarios,
                                 regional_results |-> r.regional_results]
    /\ UNCHANGED cacheVars

\* self.create_visualizations(electoral_data, timeline_data); the plots are
\* written or the visualizer raises, either of which ends the run.
RunCreateVisualizations ==
    /\ run.pc = "create_visualizations"
    /\ \E outcome \in {"done", "raised"} :
          run' = [run EXCEPT !.pc = outcome,
                             !.calls = Append(@, "create_visualizations")]
    /\ UNCHANGED <<df, result, cacheVars>>

----------------------------------------------------------------------------
(* ElectionDataProcessor (src/src/election_processor.py) and its cache *)

MaxLines == 2
MaxAdvances == 1

\* CacheConfig.CACHE_EXPIRY, in seconds.
CACHE_EXPIRY == 3600

\* int(match) for a match of \d+, a sequence of decimal digits.
RECURSIVE ParseInt(_)
ParseInt(digits) ==
    IF digits = <<>> THEN 0
    ELSE 10 * ParseInt(SubSeq(digits, 1, Len(digits) - 1)) + digits[Len(digits)]

\* A line "<state>: Harris <digits>, Trump <digits>" of the input text, as
\* the three groups state_pattern captures from it.
Line(state, harris, trump) == <<state, harris, trump>>

InputLines ==
    { Line("Arizona", <<1, 2, 0>>, <<1, 0, 0>>),
      Line("Georgia", <<8, 0>>,    <<8, 0>>),
      Line("Ohio",    <<0>>,       <<0>>) }

\* The input file: missing, of size 0, or a text.  A text is given by its
\* state lines in order; whatever else it holds matches no part of
\* state_pattern, so a text may have no state line at all.
TextFile(lines) == [state |-> "text", lines |-> lines]
MissingFile == [state |-> "missing", lines |-> <<>>]
EmptyFile == [state |-> "empty", lines |-> <<>>]

\* The cache file: absent, a pickled table, or content that pickle.load
\* rejects; mtime is its modification time.
NoCacheFile == [state |-> "absent", table |-> <<>>, mtime |-> 0]
Pickle(table, mtime) == [state |-> "pickle", table |-> table, mtime |-> mtime]
CorruptCacheFile(mtime) == [state |-> "corrupt", table |-> <<>>, mtime |-> mtime]

\* self._df: None or a table.
NoData == [is_none |-> TRUE, table |-> <<>>]
Data(table) == [is_none |-> FALSE, table |-> table]

\* No ElectionDataProcessor has been constructed yet.
NoProcessor ==
    [constructed |-> FALSE, CACHE_ENABLED |-> TRUE, data |-> NoData]

\* ElectionDataProcessor(input_file, cache_config): _df is None;
\* cache_enabled is CacheConfig.CACHE_ENABLED.
NewProcessor(cache_enabled) ==
    [constructed |-> TRUE, CACHE_ENABLED |-> cache_enabled, data |-> NoData]

\* Variant: before the first successful process_data the property hands
\* out a table without rows.
ElectionDataProcessor_data_never_raises(_df) ==
    IF _df.is_none
    THEN [raised |-> "", table |-> NoTable]
    ELSE [raised |-> "", table |-> _df.table]

\* The property data: ValueError while _df is None, else _df.
ElectionDataProcessor_data(_df) ==
    IF _df.is_none
    THEN [raised |-> "ValueError"]
    ELSE [raised |-> "", table |-> _df.table]

\* validate_input: the file exists and is not of size 0.
validate_input(file) == file.state = "text"

\* _extract_election_data followed by pd.DataFrame(data): one row per match
\* of state_pattern, in text order.
_extract_election_data(lines) ==
    [cols |-> {"State", "Harris", "Trump"},
     rows |-> [i \in 1..Len(lines) |->
                  ("State" :> lines[i][1])
                      @@ ("Harris" :> ParseInt(lines[i][2]))
                      @@ ("Trump" :> ParseInt(lines[i][3]))]]

\* ElectionDataProcessor._validate_data: the three columns, no negative
\* count, no row with a total of 0 or less.  Extracted counts are never
\* missing.  A table without rows passes every one of the .any() tests.
ElectionDataProcessor_validate_data(d) ==
    /\ {"State", "Harris", "Trump"} \subseteq d.cols
    /\ \A i \in 1..Len(d.rows) :
          /\ d.rows[i]["Harris"] >= 0
          /\ d.rows[i]["Trump"] >= 0
    /\ \A i \in 1..Len(d.rows) :
          d.rows[i]["Harris"] + d.rows[i]["Trump"] > 0

Leading_ties_to_harris(row) ==
    IF row["Harris"] >= row["Trump"] THEN "Harris" ELSE "Trump"

\* np.where(df["Harris"] > df["Trump"], "Harris", "Trump")
Leading(row) ==
    IF row["Harris"] > row["Trump"] THEN "Harris" ELSE "Trump"

\* df.sort_values("Total", ascending=False): the row positions in
\* descending order of Total; the default sort kind is not stable, so rows
\* of equal Total may come out in any relative order.
TotalOrders(d) ==
    {p \in RowOrders(Len(d.rows)) :
        \A i \in 1..(Len(d.rows) - 1) :
            d.rows[p[i]]["Harris"] + d.rows[p[i]]["Trump"]
                >= d.rows[p[i + 1]]["Harris"] + d.rows[p[i + 1]]["Trump"]}

\* _enrich_data: Total, the percentages rounded to one decimal (in
\* thousandths of a percentage point), Leading and Margin are added and the
\* rows sorted by Total; index holds the rows' positions before the sort.
_enrich_data(d, order) ==
    LET n == Len(d.rows)
        total == [i \in 1..n |-> d.rows[i]["Harris"] + d.rows[i]["Trump"]]
        e == WithColumn(WithColumn(WithColumn(WithColumn(WithColumn(d,
                 "Total", total),
                 "Harris_Percentage",
                 [i \in 1..n |->
                     RoundFrac(d.rows[i]["Harris"] * 100000, total[i], 1)]),
                 "Trump_Percentage",
                 [i \in 1..n |->
                     RoundFrac(d.rows[i]["Trump"] * 100000, total[i], 1)]),
                 "Leading", [i \in 1..n |-> Leading(d.rows[i])]),
                 "Margin",
                 [i \in 1..n |-> Abs(d.rows[i]["Harris"] - d.rows[i]["Trump"])])
    IN  [cols |-> e.cols,
         rows |-> [k \in 1..n |-> e.rows[order[k]]],
         index |-> order]

\* The UTC offsets of the local time of the machine at the time of a call,
\* in seconds: that of New York in summer, none, and that of Berlin in
\* winter.
UtcOffsets == {0 - 14400, 0, 3600}

\* pd.Timestamp.now().timestamp(): now() is the local wall-clock time
\* without time zone, which timestamp() reads as a time in UTC; the result
\* is the time since the epoch plus the UTC offset of the local time.
Timestamp_now(clock, utc_offset) == clock + utc_offset

\* (pd.Timestamp.now().timestamp() - st_mtime) < CACHE_EXPIRY; st_mtime is
\* the time since the epoch at which the file was written.
CacheIsFresh(cache, clock, utc_offset) ==
    Timestamp_now(clock, utc_offset) - cache.mtime < CACHE_EXPIRY

_load_from_cache_unguarded(cache, clock, utc_offset) ==
    IF cache.state # "absent" /\ CacheIsFresh(cache, clock, utc_offset)
    THEN Data(cache.table)
    ELSE NoData

\* _load_from_cache: the pickled table of an existing cache file that is
\* younger than CACHE_EXPIRY; None for no file, an older file, or a file
\* that cannot be loaded (the exception is logged and dropped).
_load_from_cache(cache, clock, utc_offset) ==
    IF cache.state = "pickle" /\ CacheIsFresh(cache, clock, utc_offset)
    THEN Data(cache.table)
    ELSE NoData

\* What _save_to_cache can leave behind: the pickled table; the file as it
\* was, when it cannot be opened for writing; a truncated file, when
\* pickle.dump fails after the file was opened.  No exception leaves it.
SaveOutcomes == {"written", "open_failed", "dump_failed"}

_save_to_cache(table, cache, clock, outcome) ==
    IF outcome = "written" THEN Pickle(table, clock)
    ELSE IF outcome = "dump_failed" THEN CorruptCacheFile(clock)
    ELSE cache

\* Series.round on the object-dtype columns of a table without rows returns
\* in some pandas versions and raises TypeError in others.
EmptyRoundOutcomes == {"returns", "TypeError"}

\* process_data: an invalid input file raises ValueError before the cache
\* is looked at; a table loaded from the cache is stored and returned
\* without reading the input file; otherwise the text is extracted,
\* validated, enriched, saved to the cache, stored and returned.
\* cache_config.CACHE_ENABLED is not read anywhere.
process_data(file, cache, clock, utc_offset, data, order, save, empty_round) ==
    LET cached == _load_from_cache(cache, clock, utc_offset)
        d == _extract_election_data(file.lines)
    IN  IF ~validate_input(file)
        THEN [raised |-> "ValueError", from_cache |-> FALSE,
              cache |-> cache, data |-> data]
        ELSE IF ~cached.is_none
        THEN [raised |-> "", from_cache |-> TRUE, table |-> cached.table,
              saved |-> "not_saved", cache |-> cache, data |-> cached]
        ELSE IF ~ElectionDataProcessor_validate_data(d)
        THEN [raised |-> "ValueError", from_cache |-> FALSE,
              cache |-> cache, data |-> data]
        ELSE IF Len(d.rows) = 0 /\ empty_round = "TypeError"
        THEN [raised |-> "TypeError", from_cache |-> FALSE,
              cache |-> cache, data |-> data]
        ELSE LET table == _enrich_data(d, order)
             IN  [raised |-> "", from_cache |-> FALSE, table |-> table,
                  saved |-> save,
                  cache |-> _save_to_cache(table, cache, clock, save),
                  data |-> Data(table)]

\* CLIHandler._validate_args lets the program go on: parser.error ends it
\* (SystemExit) when the input file does not exist or when --no-cache and
\* --clear-cache are both given.  Its other tests are on the output
\* directory and the DPI, which are no part of this state.
_validate_args(file, no_cache, clear_cache) ==
    /\ file.state # "missing"
    /\ ~(no_cache /\ clear_cache)

\* The start of the application (main.py) up to the construction of the
\* processor: the arguments are validated, which ends the program with
\* nothing constructed and the cache file in place when they are refused;
\* then --clear-cache deletes the cache files and --no-cache sets
\* CACHE_ENABLED to False.
Construct ==
    /\ Idle
    /\ \E no_cache, clear_cache \in BOOLEAN :
          /\ _validate_args(input_file, no_cache, clear_cache)
          /\ cache_file' = IF clear_cache THEN NoCacheFile ELSE cache_file
          /\ processor' = NewProcessor(~no_cache)
    /\ UNCHANGED <<df, result, runVars, input_file, now>>

\* The UTC offsets a call of process_data can tell apart: the clock is
\* only read when there is a cache file.
OffsetsRead(cache) == IF cache.state = "absent" THEN {0} ELSE UtcOffsets

\* process_data gets as far as reading the input file: the file is valid
\* and no table comes from the cache.  Only then are the rows sorted and
\* the cache file written.
Recomputes(file, cache, clock, utc_offset) ==
    /\ validate_input(file)
    /\ _load_from_cache(cache, clock, utc_offset).is_none

\* processor.process_data() on the processor constructed last, on a
\* machine whose local time has one of the UTC offsets; the outcome keeps
\* the cache file as the call found it and whether the call's clock makes
\* a cache file it finds younger than the expiry time.  The order of the
\* sort and the outcome of the cache write are chosen where the call
\* reaches them.
ProcessData ==
    /\ Idle
    /\ processor.constructed
    /\ \E utc_offset \in OffsetsRead(cache_file) :
       \E order \in (IF Recomputes(input_file, cache_file, now, utc_offset)
                     THEN TotalOrders(_extract_election_data(input_file.lines))
                     ELSE {CHOOSE p \in TotalOrders(
                              _extract_election_data(input_file.lines)) : TRUE}),
          save \in (IF Recomputes(input_file, cache_file, now, utc_offset)
                    THEN SaveOutcomes ELSE {"written"}),
          empty_round \in (IF input_file.lines = <<>> THEN EmptyRoundOutcomes
                           ELSE {"returns"}) :
          \E r \in {process_data(input_file, cache_file, now, utc_offset,
                                processor.data, order, save, empty_round)} :
          LET fresh == /\ cache_file.state # "absent"
                       /\ CacheIsFresh(cache_file, now, utc_offset)
          IN  /\ cache_file' = r.cache
              /\ processor' = [processor EXCEPT !.data = r.data]
              /\ result' = IF r.raised # ""
                           THEN [op |-> "process_data", raised |-> r.raised,
                                 from_cache |-> FALSE,
                                 cache_before |-> cache_file,
                                 fresh |-> fresh]
                           ELSE [op |-> "process_data", raised |-> "",
                                 from_cache |-> r.from_cache,
                                 table |-> r.table, saved |-> r.saved,
                                 cache_before |-> cache_file,
                                 fresh |-> fresh]
    /\ UNCHANGED <<df, runVars, input_file, now>>

\* processor.data on the processor constructed last
ReadData ==
    /\ Idle
    /\ processor.constructed
    /\ LET r == ElectionDataProcessor_data(processor.data)
       IN  result' = IF r.raised # ""
                     THEN [op |-> "data", raised |-> r.raised]
                     ELSE [op |-> "data", raised |-> "", table |-> r.table]
    /\ UNCHANGED <<df, runVars, cacheVars>>

\* Another program writes the input file: it creates it empty or with a
\* text without a state line, or appends a state line to it.
WriteInput ==
    /\ Idle
    /\ \/ /\ input_file.state = "missing"
          /\ input_file' \in {EmptyFile, TextFile(<<>>)}
       \/ /\ Len(input_file.lines) < MaxLines
          /\ \E line \in InputLines :
                input_file' = TextFile(Append(input_file.lines, line))
    /\ UNCHANGED <<df, result, runVars, cache_file, now, processor>>

\* Time passes: one second less than the expiry time, or the expiry time.
\* The clock is only followed while there is a cache file, whose age is
\* all that the time is read for.
Advance ==
    /\ Idle
    /\ cache_file.state # "absent"
    /\ \E seconds \in {CACHE_EXPIRY - 1, CACHE_EXPIRY} :
          /\ now + seconds <= MaxAdvances * CACHE_EXPIRY
          /\ now' = now + seconds
    /\ UNCHANGED <<df, result, runVars, input_file, cache_file, processor>>

----------------------------------------------------------------------------
(* ExtendedDataProcessor.trending_analysis *)

MaxPoints == 5

\* The polls time series are built from, in thousandths of a percentage
\* point; whole and half points are exact binary floats, and so are their
\* sums, so that equal rolling means are equal floats.
PollRows ==
    { [Harris |-> Milli(46, 0),   Trump |-> Milli(47, 0)],
      [Harris |-> Milli(47, 0),   Trump |-> Milli(47, 0)],
      [Harris |-> Milli(47, 500), Trump |-> Milli(46, 0)] }

\* A time series has one row per day, in order of time, with a column per
\* candidate, or lacks the column of Trump.
TimeSeriesTables ==
    {MakeTable(rows, cols) : rows \in SeqsUpTo(PollRows, MaxPoints),
                             cols \in {{"Harris", "Trump"}, {"Harris"}}}

\* The window sizes a caller passes: none, 0, one below the default
\* min_data_points, and two that are not.
WindowArguments == {Omitted, Given(0), Given(2), Given(3), Given(4)}

\* The configurations of the processor: the default one and one that asks
\* for two data points only.
TrendConfigs ==
    {DefaultProcessingConfig,
     [DefaultProcessingConfig EXCEPT !.min_data_points = 2]}

\* window_size or self.config.window_size: None and 0 are both falsy and
\* give way to the configured window.
EffectiveWindow(window_size, config) ==
    IF ~window_size.given \/ window_size.value = 0
    THEN config.window_size
    ELSE window_size.value

\* Variant: the mean of a window is defined from its first value on.
RollingMean_from_first_value(values, i, window, min_periods) ==
    LET lo == IF i - window + 1 > 1 THEN i - window + 1 ELSE 1
    IN  Frac(SumSeq(SubSeq(values, lo, i)), i - lo + 1)

\* Series.rolling(window, min_periods).mean() at position i: the mean of
\* the values at the up to window positions that end at i, nan when these
\* are fewer than min_periods.
RollingMean(values, i, window, min_periods) ==
    LET lo == IF i - window + 1 > 1 THEN i - window + 1 ELSE 1
    IN  IF i - lo + 1 >= min_periods
        THEN Frac(SumSeq(SubSeq(values, lo, i)), i - lo + 1)
        ELSE Frac(0, 0)

IsNan(x) == x.den = 0

\* a > b on floats: False when either one is nan.
Greater(a, b) ==
    /\ ~IsNan(a)
    /\ ~IsNan(b)
    /\ a.num * b.den > b.num * a.den

\* Series.shift(periods) at position i: the value periods positions
\* earlier, nan when there is none.
Shift(series, periods, i) ==
    IF i - periods >= 1 THEN series[i - periods] ELSE Frac(0, 0)

\* np.where(MA > MA.shift(1), "Steigend", "Fallend") at position i.
Trend(ma, i) ==
    IF Greater(ma[i], Shift(ma, 1, i)) THEN "Steigend" ELSE "Fallend"

\* (MA - MA.shift(window)).round(rounding_decimals) at position i, in
\* thousandths; nan when either mean is.
Momentum(ma, i, window, config) ==
    LET a == ma[i]
        b == Shift(ma, window, i)
    IN  IF IsNan(a) \/ IsNan(b) THEN Frac(0, 0)
        ELSE Frac(RoundFrac(a.num * b.den - b.num * a.den, a.den * b.den,
                            config.rounding_decimals), 1)

\* Series.mean of a column of floats: nan values are skipped.
NanMean(series) ==
    LET defined == SelectSeq(series, LAMBDA x : ~IsNan(x))
    IN  Frac(SumSeq([i \in 1..Len(defined) |-> defined[i].num]), Len(defined))

\* trending_analysis.  A KeyError for an absent column, the ValueError of
\* rolling() for min_periods above the window and the IndexError of
\* iloc[-1] on a series without rows leave the method as a
\* CalculationError.  The index of the series is the row positions.
trending_analysis(time_series_data, window_size, config) ==
    LET d == time_series_data
        n == Len(d.rows)
        window == EffectiveWindow(window_size, config)
        MA(c) == [i \in 1..n |->
                     RollingMean(Column(d, c), i, window,
                                 config.min_data_points)]
        TrendOf(c) == [i \in 1..n |-> Trend(MA(c), i)]
        MomentumOf(c) == [i \in 1..n |-> Momentum(MA(c), i, window, config)]
    IN  IF "Harris" \notin d.cols
        THEN [raised |-> "CalculationError", cause |-> "KeyError"]
        ELSE IF config.min_data_points > window
        THEN [raised |-> "CalculationError", cause |-> "ValueError"]
        ELSE IF "Trump" \notin d.cols
        THEN [raised |-> "CalculationError", cause |-> "KeyError"]
        ELSE IF n = 0
        THEN [raised |-> "CalculationError", cause |-> "IndexError"]
        ELSE
        [raised |-> "",
         result_df |->
            WithColumn(WithColumn(WithColumn(WithColumn(WithColumn(WithColumn(d,
                "Harris_MA", MA("Harris")),
                "Harris_Trend", TrendOf("Harris")),
                "Harris_Momentum", MomentumOf("Harris")),
                "Trump_MA", MA("Trump")),
                "Trump_Trend", TrendOf("Trump")),
                "Trump_Momentum", MomentumOf("Trump")),
         summary |->
            [Harris_Momentum_Gesamt |-> NanMean(MomentumOf("Harris")),
             Trump_Momentum_Gesamt |-> NanMean(MomentumOf("Trump")),
             Harris_Positive_Tage |->
                Cardinality({i \in 1..n : TrendOf("Harris")[i] = "Steigend"}),
             Trump_Positive_Tage |->
                Cardinality({i \in 1..n : TrendOf("Trump")[i] = "Steigend"}),
             Trend_Zeitraum |-> [first |-> 1, last |-> n]]
            @@ ("Letzte_Führung" :> d.rows[n]["Harris"] - d.rows[n]["Trump"])]

\* processor.trending_analysis(df, window_size): the table with the trend
\* columns and the summary are returned, df is not assigned.
TrendingAnalysis ==
    /\ Idle
    /\ \E window_size \in WindowArguments, config \in TrendConfigs :
          LET r == trending_analysis(df, window_size, config)
          IN  result' = IF r.raised # ""
                        THEN [op |-> "trending_analysis",
                              raised |-> r.raised, cause |-> r.cause,
                              window_size |-> window_size, config |-> config]
                        ELSE [op |-> "trending_analysis", raised |-> "",
                              window_size |-> window_size, config |-> config,
                              result_df |-> r.result_df,
                              summary |-> r.summary]
    /\ UNCHANGED <<df, runVars, cacheVars>>

----------------------------------------------------------------------------
(* Specifications *)

\* No run of ElectionAnalysis; no input file, no cache file, no
\* ElectionDataProcessor.
InitElsewhere ==
    /\ run = NotStarted
    /\ input_file = MissingFile
    /\ cache_file = NoCacheFile
    /\ now = 0
    /\ processor = NoProcessor

Init ==
    /\ df \in InputTables
    /\ result = NoResult
    /\ InitElsewhere

Next ==
    \/ ValidateElectoralVotes
    \/ ValidateDataframe
    \/ ValidateDataframeExtended
    \/ CalculateLeads
    \/ CalculatePercentages
    \/ AnalyzeElectoralScenarios
    \/ Continue

Spec == Init /\ [][Next]_vars

\* A row for the District of Columbia, which VALID_STATES holds and no
\* region does, and two rows of states that lie in a region.
DistrictRows ==
    {Row("District of Columbia", Milli(90, 0), Milli(6, 500), 3)}
    \cup {r \in InputRows : r.Staat \in {"Arizona", "Georgia"}}

\* The tables that are analysed: the input tables, and tables with the
\* District of Columbia.
AnalysisTables ==
    InputTables
    \cup {MakeTable(rows, BaseColumns) : rows \in SeqsUpTo(DistrictRows, MaxRows)}

InitAnalysis ==
    /\ df \in AnalysisTables
    /\ result = NoResult
    /\ InitElsewhere

\* The probability and regional analyses of a table, with or without its
\* lead column.
NextAnalysis ==
    \/ CalculateLeads
    \/ CalculateWinningProbability
    \/ RegionalAnalysis
    \/ Continue

SpecAnalysis == InitAnalysis /\ [][NextAnalysis]_vars

\* A run of ElectionAnalysis, from the call of run() on an instance with
\* either validation configuration.
InitRun ==
    /\ df = NoTable
    /\ result = NoResult
    /\ \E config \in ValidationConfigs : run = Run("load_data", config)
    /\ input_file = MissingFile
    /\ cache_file = NoCacheFile
    /\ now = 0
    /\ processor = NoProcessor

NextRun ==
    \/ RunLoadData
    \/ RunValidateData
    \/ RunProcessData
    \/ RunCreateVisualizations

SpecRun == InitRun /\ [][NextRun]_vars

\* The election processor, its input file, its cache file and the clock,
\* before the application is started: there is no input file yet, no cache
\* file and no processor.
InitCache ==
    /\ df = NoTable
    /\ result = NoResult
    /\ run = NotStarted
    /\ input_file = MissingFile
    /\ cache_file = NoCacheFile
    /\ now = 0
    /\ processor = NoProcessor

NextCache ==
    \/ Construct
    \/ ProcessData
    \/ ReadData
    \/ WriteInput
    \/ Advance
    \/ Continue

SpecCache == InitCache /\ [][NextCache]_vars

\* The trend analysis of a time series.
InitTrend ==
    /\ df \in TimeSeriesTables
    /\ result = NoResult
    /\ InitElsewhere

NextTrend ==
    \/ TrendingAnalysis
    \/ Continue

SpecTrend == InitTrend /\ [][NextTrend]_vars
----------------------------------------------------------------------------
(* Properties *)

\* The base columns of a table, as loaded.
BaseOf(d) == [cols |-> d.cols \cap BaseColumns,
              rows |-> [i \in 1..Len(d.rows) |->
                           Project(d.rows[i], d.cols \cap BaseColumns)]]

Returned(op) == result.op = op /\ result.raised = ""

\* C1: for every table with Harris and Trump columns and at least one row,
\* calculate_leads returns a table in which every row's lead is the row's
\* Harris value minus its Trump value rounded to two decimals (a multiple of
\* 0.01 at most 0.005 away from the difference), the Harris and Trump values
\* being those of the input.
C1_LeadIsRoundedDifference ==
    (result.op = "calculate_leads"
        /\ {"Harris", "Trump"} \subseteq result.input.cols
        /\ Len(result.input.rows) >= 1)
    => /\ result.raised = ""
       /\ Len(df.rows) = Len(result.input.rows)
       /\ \A i \in 1..Len(df.rows) :
             LET lead == df.rows[i]["Führung"]
                 diff == df.rows[i]["Harris"] - df.rows[i]["Trump"]
             IN  /\ lead % 10 = 0
                 /\ 2 * Abs(lead - diff) <= 10
                 /\ df.rows[i]["Harris"] = result.input.rows[i]["Harris"]
                 /\ df.rows[i]["Trump"] = result.input.rows[i]["Trump"]

\* calculate_leads has returned for the sample table with the leads
\* -1.40, -0.90, 0.60.
C1_Witness ==
    /\ Returned("calculate_leads")
    /\ result.input = sample_data
    /\ Column(df, "Führung") = <<0 - 1400, 0 - 900, 600>>

\* C2: calculate_leads and calculate_percentages are idempotent: applied to
\* a table that already carries the column(s) the operation writes, the
\* operation returns that very table.
C2_Idempotent ==
    /\ (Returned("calculate_leads") /\ "Führung" \in result.input.cols)
          => df = result.input
    /\ (Returned("calculate_percentages")
            /\ {"Harris_Anteil", "Trump_Anteil"} \subseteq result.input.cols)
          => df = result.input

\* calculate_percentages has been applied to its own output for a table of
\* several rows with distinct shares.
C2_Witness ==
    /\ Returned("calculate_percentages")
    /\ "Harris_Anteil" \in result.input.cols
    /\ Len(df.rows) >= 2
    /\ df.rows[1]["Harris_Anteil"] # df.rows[2]["Harris_Anteil"]
    /\ df.rows[1]["Harris_Anteil"] # df.rows[1]["Harris"]

\* The electoral-vote mismatch as reported by the last validation: the key
\* invalid_votes of the base report.
BaseReport ==
    IF result.op = "validate_dataframe" THEN result.errors
    ELSE IF "base_validation" \in DOMAIN result.errors
         THEN result.errors["base_validation"]
         ELSE EmptyDict

IsValidation ==
    result.op \in {"validate_dataframe", "validate_dataframe_extended"}

\* C3: for every table with all required columns, validation reports an
\* electoral-vote mismatch carrying the actual sum and returns is_valid =
\* False when the electoral votes do not sum to the configured total, and
\* reports no electoral-vote mismatch when they do.
C3_ElectoralVoteMismatch ==
    (IsValidation /\ BaseColumns \subseteq df.cols)
    => /\ result.raised = ""
       /\ IF WahlleuteSum(df.rows) # result.config.total_electoral_votes
          THEN /\ ~result.is_valid
               /\ "invalid_votes" \in DOMAIN BaseReport
               /\ BaseReport["invalid_votes"] = WahlleuteSum(df.rows)
          ELSE "invalid_votes" \notin DOMAIN BaseReport

\* A table whose votes exceed the target and whose percentages are out of
\* range as well has been validated; the mismatch is reported with its sum.
C3_Witness ==
    /\ Returned("validate_dataframe")
    /\ BaseColumns \subseteq df.cols
    /\ WahlleuteSum(df.rows) > result.config.total_electoral_votes
    /\ DOMAIN result.errors = {"invalid_percentages", "invalid_votes"}

\* C4: with the default configuration validate_electoral_votes accepts a
\* list of electoral votes that sums to 538 and rejects one that sums to 540.
C4_DefaultAccepts538 ==
    (result.op = "validate_electoral_votes"
        /\ result.config = DefaultValidationConfig)
    => /\ result.total_votes = 538 => result.is_valid
       /\ result.total_votes = 540 => ~result.is_valid

\* The rows of a table are those of a plausible partial table: known state
\* names, percentages in [0,100], percentage sums in [94,100].
PlausibleRows(d) ==
    \A i \in 1..Len(d.rows) :
        /\ d.rows[i]["Staat"] \in VALID_STATES
        /\ \A c \in {"Harris", "Trump"} :
              Milli(0, 0) <= d.rows[i][c] /\ d.rows[i][c] <= Milli(100, 0)
        /\ Milli(94, 0) <= d.rows[i]["Harris"] + d.rows[i]["Trump"]
        /\ d.rows[i]["Harris"] + d.rows[i]["Trump"] <= Milli(100, 0)

\* C5: extended validation with the default configuration accepts, with an
\* empty error report, a partial table of swing states whose rows are
\* plausible; stated for the three-row sample table the claim names.
C5_PartialTableAccepted ==
    (result.op = "validate_dataframe_extended"
        /\ result.config = DefaultValidationConfig
        /\ BaseOf(df) = sample_data
        /\ PlausibleRows(df))
    => /\ result.raised = ""
       /\ result.is_valid
       /\ DOMAIN result.errors = {}
\* What a table violates, stated on the table alone.
ViolatesColumns(d) == ~(BaseColumns \subseteq d.cols)

ViolatesRange(d) ==
    \E i \in 1..Len(d.rows) : \E c \in {"Harris", "Trump"} \cap d.cols :
        d.rows[i][c] < Milli(0, 0) \/ d.rows[i][c] > Milli(100, 0)

ViolatesVotes(d, config) ==
    /\ "Wahlleute" \in d.cols
    /\ WahlleuteSum(d.rows) # config.total_electoral_votes

ViolatesStates(d) ==
    /\ "Staat" \in d.cols
    /\ \E i \in 1..Len(d.rows) : d.rows[i]["Staat"] \notin VALID_STATES

ViolatesSums(d) ==
    /\ {"Harris", "Trump"} \subseteq d.cols
    /\ \E i \in 1..Len(d.rows) :
          LET total == d.rows[i]["Harris"] + d.rows[i]["Trump"]
          IN  total < Milli(94, 0) \/ total > Milli(100, 0)

\* Every check the validated table violates is in the returned report: the
\* three base checks for both validators, the two extended checks for
\* validate_dataframe_extended.
AllViolationsReported ==
    /\ ViolatesColumns(df) => "missing_columns" \in DOMAIN BaseReport
    /\ ViolatesRange(df) => "invalid_percentages" \in DOMAIN BaseReport
    /\ ViolatesVotes(df, result.config) => "invalid_votes" \in DOMAIN BaseReport
    /\ result.op = "validate_dataframe_extended" =>
          /\ ViolatesStates(df) => "invalid_states" \in DOMAIN result.errors
          /\ ViolatesSums(df) => "invalid_sums" \in DOMAIN result.errors

\* C6 as stated: whenever a validation returns its report, each of the
\* checks (required columns, percentage range, electoral-vote total, known
\* state names, percentage-sum plausibility) that the table violates appears
\* in the report, whichever other checks fail.
C6_AllFailuresCollected ==
    (IsValidation /\ result.raised = "") => AllViolationsReported

\* C6, amended: for a table with all required columns every violated check
\* appears in the report, whichever other checks fail; for a table that
\* lacks a required column a returned report holds the missing columns and,
\* the base validation stopping there, neither a percentage-range nor an
\* electoral-vote failure.
C6_CollectedUnlessColumnMissing ==
    (IsValidation /\ result.raised = "")
    => /\ ~result.is_valid <=> DOMAIN result.errors # {}
       /\ IF BaseColumns \subseteq df.cols
          THEN AllViolationsReported
          ELSE /\ DOMAIN BaseReport = {"missing_columns"}
               /\ BaseReport["missing_columns"] = BaseColumns \ df.cols
               /\ result.op = "validate_dataframe_extended" =>
                     /\ ViolatesStates(df)
                            => "invalid_states" \in DOMAIN result.errors
                     /\ ViolatesSums(df)
                            => "invalid_sums" \in DOMAIN result.errors

\* The extended validation has reported four failed checks of one table at
\* once.
C6_Witness ==
    /\ Returned("validate_dataframe_extended")
    /\ BaseColumns \subseteq df.cols
    /\ DOMAIN result.errors = {"base_validation", "invalid_states", "invalid_sums"}
    /\ DOMAIN BaseReport = {"invalid_percentages", "invalid_votes"}

\* C7: validation never raises: for every table, one that lacks a required
\* column included, validate_dataframe and validate_dataframe_extended
\* return an (is_valid, errors) pair.
C7_ValidationNeverRaises ==
    IsValidation => result.raised = ""

\* The electoral votes of the rows of d whose position is in the set which.
VotesOf(d, which) ==
    SumSeq([i \in 1..Len(d.rows) |->
               IF i \in which THEN d.rows[i]["Wahlleute"] ELSE 0])

RowsWhere(d, sign) ==
    {i \in 1..Len(d.rows) :
        \/ sign = 1 /\ d.rows[i]["Harris"] > d.rows[i]["Trump"]
        \/ sign = 0 /\ d.rows[i]["Harris"] = d.rows[i]["Trump"]
        \/ sign = 0 - 1 /\ d.rows[i]["Harris"] < d.rows[i]["Trump"]}

\* C8: in the base scenario the rows are partitioned into Harris-leads,
\* Trump-leads and tied, and the three electoral-vote sums add up to the
\* electoral votes of the whole table.
C8_BasePartitionSumsToTotal ==
    Returned("analyze_electoral_scenarios")
    => LET v == result.scenarios.Basisszenario.Wahlleute
       IN  /\ v.Harris + v.Trump + v.Unentschieden = WahlleuteSum(df.rows)
           /\ v.Harris = VotesOf(df, RowsWhere(df, 1))
           /\ v.Trump = VotesOf(df, RowsWhere(df, 0 - 1))
           /\ v.Unentschieden = VotesOf(df, RowsWhere(df, 0))

\* A table with a Harris state, a Trump state and a tied state has been
\* analysed.
C8_Witness ==
    /\ Returned("analyze_electoral_scenarios")
    /\ result.scenarios.Basisszenario.Wahlleute.Harris > 0
    /\ result.scenarios.Basisszenario.Wahlleute.Trump > 0
    /\ result.scenarios.Basisszenario.Wahlleute.Unentschieden > 0

IsClose(row, threshold) == Abs(row["Harris"] - row["Trump"]) < threshold

Count(seq, x) == Cardinality({i \in 1..Len(seq) : seq[i] = x})

\* C9: the close-race set is exactly the set of rows with |Harris - Trump|
\* strictly below close_race_threshold, its count and electoral-vote sum are
\* those of that set, a row whose margin equals the threshold is excluded,
\* and for the sample table with the default threshold the set is
\* Georgia, Michigan.
C9_CloseRaceSet ==
    Returned("analyze_electoral_scenarios")
    => LET k == result.scenarios.Knappe_Staaten
           thr == result.config.close_race_threshold
           close == {i \in 1..Len(df.rows) : IsClose(df.rows[i], thr)}
       IN  /\ k.Anzahl = Cardinality(close)
           /\ Len(k.Staaten) = k.Anzahl
           /\ \A i \in 1..Len(df.rows) :
                 Count(k.Staaten, df.rows[i]["Staat"])
                     = Cardinality({j \in close :
                           df.rows[j]["Staat"] = df.rows[i]["Staat"]})
           /\ k.Wahlleute = VotesOf(df, close)
           /\ \A i \in 1..Len(df.rows) :
                 (Abs(df.rows[i]["Harris"] - df.rows[i]["Trump"]) = thr
                     /\ \A j \in close :
                           df.rows[j]["Staat"] # df.rows[i]["Staat"])
                 => Count(k.Staaten, df.rows[i]["Staat"]) = 0
           /\ (BaseOf(df) = sample_data /\ thr = Milli(1, 0))
                 => k.Staaten = <<"Georgia", "Michigan">>

\* The sample table has been analysed with the default threshold.
C9_Witness ==
    /\ Returned("analyze_electoral_scenarios")
    /\ BaseOf(df) = sample_data
    /\ result.config = DefaultProcessingConfig
    /\ result.scenarios.Knappe_Staaten.Staaten = <<"Georgia", "Michigan">>
    /\ result.scenarios.Knappe_Staaten.Wahlleute = 31

\* C10: for every table whose electoral votes total at least 270, the
\* tipping-point state is the first row, in ascending order of lead, at
\* which the running sum of electoral votes reaches or exceeds 270 (every
\* earlier row has a running sum below 270), and the reported lead and
\* electoral votes are those of that row.
C10_TippingPointIsFirstCrossing ==
    (Returned("analyze_electoral_scenarios")
        /\ WahlleuteSum(df.rows) >= MajorityThreshold)
    => LET order == result.df_sorted
           n == Len(df.rows)
           running(k) == WahlleuteSum([j \in 1..k |-> df.rows[order[j]]])
           tp == result.scenarios.Tipping_Point
       IN  /\ Len(order) = n
           /\ {order[k] : k \in 1..n} = 1..n
           /\ \A k \in 1..(n - 1) :
                 df.rows[order[k]]["Führung"] <= df.rows[order[k + 1]]["Führung"]
           /\ \E k \in 1..n :
                 /\ running(k) >= MajorityThreshold
                 /\ \A j \in 1..(k - 1) : running(j) < MajorityThreshold
                 /\ tp["Staat"] = df.rows[order[k]]["Staat"]
                 /\ tp["Führung"] = df.rows[order[k]]["Führung"]
                 /\ tp["Wahlleute"] = df.rows[order[k]]["Wahlleute"]

\* The tipping point of a three-row table is its middle row in lead order,
\* where the running sum is 11, 279, 294.
C10_Witness ==
    /\ Returned("analyze_electoral_scenarios")
    /\ Column(df, "Staat") = <<"Michigan", "Nevada", "Arizona">>
    /\ result.df_sorted = <<3, 2, 1>>
    /\ result.scenarios.Tipping_Point["Staat"] = "Nevada"
    /\ result.scenarios.Tipping_Point["Wahlleute"] = 268

\* C11: regional_analysis does not fail over a region without rows and
\* leaves it out of the report: for a table with the state, percentage,
\* electoral-vote and lead columns the call returns, and the keys of a
\* returned report are exactly those of the four fixed regions that hold the
\* state of at least one row of the table, each with Anzahl_Staaten >= 1.
C11_EmptyRegionsOmitted ==
    /\ (result.op = "regional_analysis"
           /\ {"Staat", "Harris", "Trump", "Wahlleute", "Führung"}
                  \subseteq df.cols)
       => result.raised = ""
    /\ Returned("regional_analysis")
       => /\ DOMAIN result.regional_results
               = {region \in {"Nordosten", "Mittlerer_Westen", "Süden",
                              "Westen"} :
                     \E i \in 1..Len(df.rows) :
                        df.rows[i]["Staat"] \in REGIONS[region]}
          /\ \A region \in DOMAIN result.regional_results :
                result.regional_results[region].Anzahl_Staaten >= 1

\* A report over rows of the West and the South only: the Northeast and the
\* Midwest are left out.
C11_Witness ==
    /\ Returned("regional_analysis")
    /\ DOMAIN result.regional_results = {"Westen", "Süden"}
    /\ Len(df.rows) >= 2

\* C13: in the table calculate_winning_probability returns, every row whose
\* lead is 0 has a Harris win probability of exactly 50.00 and a Trump win
\* probability of exactly 50.00, whatever the margin of error.
C13_TiedLeadIsEvenOdds ==
    Returned("calculate_winning_probability")
    => \A i \in 1..Len(result.result_df.rows) :
          LET row == result.result_df.rows[i]
          IN  row["Führung"] = 0
              => /\ row["Harris_Gewinnchance"] = Milli(50, 0)
                 /\ row["Trump_Gewinnchance"] = Milli(50, 0)

\* A returned table with a margin of 1.0 that holds a row of lead 0, whose
\* percentages differ before rounding, next to a row of another lead and
\* another probability.
C13_Witness ==
    /\ Returned("calculate_winning_probability")
    /\ result.margin_of_error = Given(Milli(1, 0))
    /\ \E i, j \in 1..Len(result.result_df.rows) :
          /\ result.result_df.rows[i]["Führung"] = 0
          /\ result.result_df.rows[i]["Harris"]
                 # result.result_df.rows[i]["Trump"]
          /\ result.result_df.rows[j]["Führung"] # 0
          /\ result.result_df.rows[j]["Harris_Gewinnchance"] # Milli(50, 0)

\* C14: in the table calculate_winning_probability returns, every row's
\* Harris and Trump win probabilities lie in [0, 100] and add up to 100
\* within 0.01.
C14_ProbabilitiesComplementary ==
    Returned("calculate_winning_probability")
    => \A i \in 1..Len(result.result_df.rows) :
          LET row == result.result_df.rows[i]
          IN  /\ 0 <= row["Harris_Gewinnchance"]
              /\ row["Harris_Gewinnchance"] <= Milli(100, 0)
              /\ 0 <= row["Trump_Gewinnchance"]
              /\ row["Trump_Gewinnchance"] <= Milli(100, 0)
              /\ Abs(row["Harris_Gewinnchance"] + row["Trump_Gewinnchance"]
                     - Milli(100, 0)) <= 10

\* The probabilities of the sample table at the default margin: 8.50 and
\* 91.50 for Arizona, 72.17 and 27.83 for Michigan.
C14_Witness ==
    /\ Returned("calculate_winning_probability")
    /\ BaseOf(result.result_df) = sample_data
    /\ result.margin_of_error = Omitted
    /\ result.result_df.rows[1]["Harris_Gewinnchance"] = Milli(8, 500)
    /\ result.result_df.rows[1]["Trump_Gewinnchance"] = Milli(91, 500)
    /\ result.result_df.rows[3]["Harris_Gewinnchance"] = Milli(72, 170)
    /\ result.result_df.rows[3]["Trump_Gewinnchance"] = Milli(27, 830)

\* The row positions in ascending order of lead with rows of equal lead in
\* their order in the table: what a stable sort produces.
StableOrder(d) ==
    CHOOSE p \in RowOrders(Len(d.rows)) :
        \A i, j \in 1..Len(d.rows) :
            i < j => \/ d.rows[p[i]]["Führung"] < d.rows[p[j]]["Führung"]
                     \/ /\ d.rows[p[i]]["Führung"] = d.rows[p[j]]["Führung"]
                        /\ p[i] < p[j]

\* C19: the ascending-by-lead ordering that analyze_electoral_scenarios uses
\* for the tipping point keeps rows of equal lead in the table's original
\* relative order, so the tipping-point row is the one the stable order
\* gives (here for tables whose rows are of different states).
C19_TieBreakIsStable ==
    (Returned("analyze_electoral_scenarios")
        /\ \A i, j \in 1..Len(df.rows) :
              i # j => df.rows[i]["Staat"] # df.rows[j]["Staat"])
    => /\ result.df_sorted = StableOrder(df)
       /\ TippingPointIdx(df, result.df_sorted)
              = TippingPointIdx(df, StableOrder(df))

\* The running sums of electoral votes over the rows in the given order.
RunningVotes(d, order) ==
    [k \in 1..Len(order) |-> WahlleuteSum([j \in 1..k |-> d.rows[order[j]]])]

Monotonic(s) == \A k \in 1..(Len(s) - 1) : s[k] <= s[k + 1]

\* C20 as stated: for a table whose running electoral-vote sums in lead
\* order are monotonic, the row selected with a threshold of 269 is the row
\* selected with the threshold of 270, which is the reported tipping point.
C20_ThresholdShiftKeepsRow ==
    (Returned("analyze_electoral_scenarios")
        /\ Monotonic(RunningVotes(df, result.df_sorted)))
    => LET order == result.df_sorted
           running == RunningVotes(df, order)
           at269 == order[IdxMax(running, MajorityThreshold - 1)]
           at270 == order[IdxMax(running, MajorityThreshold)]
       IN  /\ at269 = at270
           /\ result.scenarios.Tipping_Point["Staat"] = df.rows[at269]["Staat"]

\* C20: for a table whose running electoral-vote sums in lead order are
\* monotonic and none of whose running sums equals 269, the row selected
\* with a threshold of 269 is the row selected with the threshold of 270,
\* which is the reported tipping point.
C20_ThresholdShiftKeepsRowUnless269 ==
    (Returned("analyze_electoral_scenarios")
        /\ Monotonic(RunningVotes(df, result.df_sorted))
        /\ \A k \in 1..Len(df.rows) :
              RunningVotes(df, result.df_sorted)[k] # MajorityThreshold - 1)
    => LET order == result.df_sorted
           running == RunningVotes(df, order)
           at269 == order[IdxMax(running, MajorityThreshold - 1)]
           at270 == order[IdxMax(running, MajorityThreshold)]
           tp == result.scenarios.Tipping_Point
       IN  /\ at269 = at270
           /\ tp["Staat"] = df.rows[at269]["Staat"]
           /\ tp["Führung"] = df.rows[at269]["Führung"]
           /\ tp["Wahlleute"] = df.rows[at269]["Wahlleute"]

\* Wisconsin after Nevada in lead order, running sums 268 and 536: the
\* second row is selected with either threshold.
C20_Witness ==
    /\ Returned("analyze_electoral_scenarios")
    /\ Column(df, "Staat") = <<"Wisconsin", "Nevada">>
    /\ result.df_sorted = <<2, 1>>
    /\ RunningVotes(df, result.df_sorted) = <<268, 536>>
    /\ result.scenarios.Tipping_Point["Staat"] = "Wisconsin"

\* The methods a run invokes after a successful validation.
AfterValidationMethods ==
    {"process_data", "calculate_leads", "calculate_percentages",
     "analyze_electoral_scenarios", "regional_analysis",
     "create_visualizations"}

\* C15: in a run of ElectionAnalysis in which validate_data has returned
\* False, no call of process_data, of the processor methods it invokes or
\* of create_visualizations follows the call of validate_data, and the run
\* has returned.
C15_FailedValidationHalts ==
    run.is_valid = "False"
    => /\ run.pc = "returned"
       /\ \A i, j \in 1..Len(run.calls) :
             (run.calls[i] = "validate_data" /\ i < j)
             => run.calls[j] \notin AfterValidationMethods

\* A run over the sample table, whose 42 electoral votes fail the
\* validation: it has returned after load_data and validate_data.
C15_Witness ==
    /\ run.is_valid = "False"
    /\ run.pc = "returned"
    /\ run.calls = <<"load_data", "validate_data">>
    /\ df = sample_data

\* C12 as stated: every row of an enriched table is labelled Harris or
\* Trump, and a row whose Harris and Trump counts are equal is labelled
\* Harris.
C12_HarrisWinsTies ==
    Returned("process_data")
    => \A i \in 1..Len(result.table.rows) :
          LET row == result.table.rows[i]
          IN  /\ row["Leading"] \in {"Harris", "Trump"}
              /\ row["Harris"] = row["Trump"] => row["Leading"] = "Harris"

\* C12: every row of an enriched table is labelled Harris or Trump, Harris
\* exactly when its Harris count is greater than its Trump count, so a row
\* whose counts are equal is labelled Trump.
C12_TrumpWinsTies ==
    Returned("process_data")
    => \A i \in 1..Len(result.table.rows) :
          LET row == result.table.rows[i]
          IN  /\ row["Leading"] \in {"Harris", "Trump"}
              /\ row["Leading"] = "Harris" <=> row["Harris"] > row["Trump"]
              /\ row["Harris"] = row["Trump"] => row["Leading"] = "Trump"

\* A freshly enriched table with a row of 80 to 80 votes labelled Trump and
\* a row of 120 to 100 votes labelled Harris.
C12_Witness ==
    /\ Returned("process_data")
    /\ ~result.from_cache
    /\ \E i, j \in 1..Len(result.table.rows) :
          /\ result.table.rows[i]["Harris"] = 80
          /\ result.table.rows[i]["Trump"] = 80
          /\ result.table.rows[i]["Leading"] = "Trump"
          /\ result.table.rows[j]["Harris"] = 120
          /\ result.table.rows[j]["Trump"] = 100
          /\ result.table.rows[j]["Leading"] = "Harris"

\* The tables a recomputation without cache (extract, validate, enrich)
\* of the file's content can produce: none for a file or data that fail
\* validation, one per row order the sort can produce otherwise.
Recomputations(file) ==
    LET d == _extract_election_data(file.lines)
    IN  IF validate_input(file) /\ ElectionDataProcessor_validate_data(d)
        THEN {_enrich_data(d, order) : order \in TotalOrders(d)}
        ELSE {}

\* C16: a call of process_data that finds a cache file whose age (the time
\* of the call minus the file's modification time) is at least CACHE_EXPIRY
\* does not serve it; when the call returns, the returned table is a
\* recomputation of the input file's content, and the cache file holds that
\* table with the time of the call as its modification time unless the
\* write failed.
C16_ExpiredCacheNotServed ==
    (result.op = "process_data"
        /\ result.cache_before.state # "absent"
        /\ now - result.cache_before.mtime >= CACHE_EXPIRY)
    => /\ ~result.from_cache
       /\ result.raised = ""
          => /\ result.table \in Recomputations(input_file)
             /\ processor.data = Data(result.table)
             /\ result.saved = "written"
                => cache_file = Pickle(result.table, now)
             /\ result.saved = "open_failed"
                => cache_file = result.cache_before
             /\ result.saved = "dump_failed"
                => cache_file = CorruptCacheFile(now)

\* C17: a table (here: one with rows) that process_data returns from the
\* cache is one that a recomputation without cache of the input file's
\* content at the time of the call produces.
C17_CacheHitEqualsRecomputation ==
    (Returned("process_data") /\ result.from_cache
        /\ Len(result.table.rows) >= 1)
    => result.table \in Recomputations(input_file)

\* C18: a call of process_data on a processor constructed with
\* CACHE_ENABLED = False (--no-cache), here for an input file with a state
\* line, returns no table from the cache file and leaves the cache file as
\* it found it.
C18_NoCacheDisablesCaching ==
    (result.op = "process_data" /\ ~processor.CACHE_ENABLED
        /\ input_file.lines # <<>>)
    => /\ ~result.from_cache
       /\ cache_file = result.cache_before

\* What a call of process_data on the file can come to when there is no
\* cache file: the exception it raises, or the table it returns.
OutcomesWithoutCache(file, clock, data) ==
    LET d == _extract_election_data(file.lines)
    IN  { LET r == process_data(file, NoCacheFile, clock, 0, data, order,
                                "written", empty_round)
          IN  IF r.raised # "" THEN [raised |-> r.raised]
              ELSE [raised |-> "", table |-> r.table] :
          order \in TotalOrders(d), empty_round \in EmptyRoundOutcomes }

\* C21: a call of process_data that finds a cache file that cannot be
\* loaded ends as a call without cache file on the same input can end (same
\* exception, or a table recomputed from the input file), finding it young
\* or old; and a call whose write of the cache file fails returns all the
\* same, with the recomputed table, which it also keeps as its data.
C21_CacheFailuresAreBestEffort ==
    /\ (result.op = "process_data" /\ result.cache_before.state = "corrupt")
       => /\ ~result.from_cache
          /\ (IF result.raised # "" THEN [raised |-> result.raised]
              ELSE [raised |-> "", table |-> result.table])
                \in OutcomesWithoutCache(input_file, now, processor.data)
    /\ (result.op = "process_data" /\ ~result.from_cache
          /\ input_file.state = "text"
          /\ ElectionDataProcessor_validate_data(
                 _extract_election_data(input_file.lines))
          /\ input_file.lines # <<>>)
       => /\ result.raised = ""
          /\ result.saved \in {"open_failed", "dump_failed"}
             => /\ result.table \in Recomputations(input_file)
                /\ processor.data = Data(result.table)

\* A call that finds a young cache file that cannot be loaded, recomputes a
\* table with rows and fails to open the cache file for writing.
C21_Witness ==
    /\ Returned("process_data")
    /\ result.cache_before.state = "corrupt"
    /\ result.fresh
    /\ result.saved = "open_failed"
    /\ Len(result.table.rows) >= 1
    /\ result.table \in Recomputations(input_file)

\* The columns an operation of DataProcessor requires of its table.
RequiredColumns(op) ==
    IF op = "calculate_leads" THEN {"Harris", "Trump"}
    ELSE {"Harris", "Trump", "Wahlleute"}

\* C22: a call of calculate_leads or calculate_percentages on an empty
\* table or on a table lacking one of the operation's required columns
\* raises DataError.
C22_DataErrorObserved ==
    (result.op \in {"calculate_leads", "calculate_percentages"}
        /\ (IsEmpty(result.input)
              \/ RequiredColumns(result.op) \ result.input.cols # {}))
    => result.raised = "DataError"

\* No value of the column occurs in more than one row.
UniqueBy(d, c) ==
    \A i, j \in 1..Len(d.rows) : d.rows[i][c] = d.rows[j][c] => i = j

\* C23: a table that validate_dataframe_extended declares valid has no
\* state in more than one row, and neither has a table that process_data
\* computes from the input file, which it does only after
\* ElectionDataProcessor._validate_data has passed it.
C23_RowsUniqueByState ==
    /\ (Returned("validate_dataframe_extended") /\ result.is_valid)
       => UniqueBy(df, "Staat")
    /\ (Returned("process_data") /\ ~result.from_cache)
       => UniqueBy(result.table, "State")

\* The table lacks a column the scenario analysis reads, or has no row for
\* idxmax to select.
ScenarioAnalysisFails(d) ==
    \/ ~({"Staat", "Harris", "Trump", "Wahlleute", "Führung"} \subseteq d.cols)
    \/ Len(d.rows) = 0

\* C24: a call of analyze_electoral_scenarios either raises
\* CalculationError and hands no scenario to the caller, which is the case
\* whenever the table lacks a column the analysis reads (the lead column
\* included) or has no rows, or it returns a report with exactly the three
\* scenarios Basisszenario, Knappe_Staaten and Tipping_Point.
C24_ScenariosAllOrNothing ==
    result.op = "analyze_electoral_scenarios"
    => IF ScenarioAnalysisFails(df)
       THEN /\ result.raised = "CalculationError"
            /\ "scenarios" \notin DOMAIN result
       ELSE /\ result.raised = ""
            /\ DOMAIN result.scenarios
                 = {"Basisszenario", "Knappe_Staaten", "Tipping_Point"}

\* The analysis of a table with rows and the four base columns to which
\* calculate_leads was not applied: the base and close-race scenarios could
\* be computed, the sort by lead fails.
C24_Witness ==
    /\ result.op = "analyze_electoral_scenarios"
    /\ result.raised = "CalculationError"
    /\ df.cols = BaseColumns
    /\ Len(df.rows) >= 1
    /\ "scenarios" \notin DOMAIN result

\* The candidates whose trend columns a returned trend table holds.
Candidates == {"Harris", "Trump"}

\* The number of days of the returned trend table on which the candidate's
\* trend is rising.
RisingDays(c) ==
    Cardinality({i \in 1..Len(result.result_df.rows) :
                    result.result_df.rows[i][c \o "_Trend"] = "Steigend"})

\* a == b on floats that are not nan: the two fractions have the same
\* value, whatever their numerators and denominators.
SameValue(a, b) == a.num * b.den = b.num * a.den

\* In the returned trend table the rolling means of the candidate are those
\* over the given window: the mean of a day is defined exactly when the
\* values up to that day within the window are at least min_data_points,
\* and has then the value of the mean of these values.
MeansAreOverWindow(c, window) ==
    \A i \in 1..Len(result.result_df.rows) :
        LET available == IF i < window THEN i ELSE window
            ma == result.result_df.rows[i][c \o "_MA"]
        IN  /\ ~IsNan(ma) <=> available >= result.config.min_data_points
            /\ ~IsNan(ma)
               => SameValue(ma,
                     Mean(SubSeq(Column(df, c), i - available + 1, i)))

\* In a returned trend table the rolling means are those over the window
\* in force, and a day is rising exactly when its rolling mean and that of
\* the day before are both defined and the former is greater, and falling
\* otherwise, the first day included.
TrendLabelsFollowRollingMeans ==
    \A c \in Candidates :
        /\ MeansAreOverWindow(c,
               EffectiveWindow(result.window_size, result.config))
        /\ \A i \in 1..Len(result.result_df.rows) :
              LET rows == result.result_df.rows
                  ma == rows[i][c \o "_MA"]
              IN  /\ rows[i][c \o "_Trend"] \in {"Steigend", "Fallend"}
                  /\ rows[i][c \o "_Trend"] = "Steigend"
                     <=> /\ i > 1
                         /\ ~IsNan(ma)
                         /\ ~IsNan(rows[i - 1][c \o "_MA"])
                         /\ ma.num * rows[i - 1][c \o "_MA"].den
                              > rows[i - 1][c \o "_MA"].num * ma.den

\* C25 as stated: the trend labels follow the rolling means, and the number
\* of rising days of either candidate is at most the number of points minus
\* min_data_points.
C25_RisingDaysBounded ==
    Returned("trending_analysis")
    => /\ TrendLabelsFollowRollingMeans
       /\ \A c \in Candidates :
             /\ RisingDays(c) = result.summary[c \o "_Positive_Tage"]
             /\ RisingDays(c)
                  <= Len(df.rows) - result.config.min_data_points

\* C25, amended: the trend labels follow the rolling means; a series of
\* fewer than min_data_points points has no rising day, and a longer one
\* at most the number of points minus min_data_points.
C25_RisingDaysBoundedFromZero ==
    Returned("trending_analysis")
    => /\ TrendLabelsFollowRollingMeans
       /\ \A c \in Candidates :
             /\ RisingDays(c) = result.summary[c \o "_Positive_Tage"]
             /\ Len(df.rows) < result.config.min_data_points
                => RisingDays(c) = 0
             /\ Len(df.rows) >= result.config.min_data_points
                => RisingDays(c)
                     <= Len(df.rows) - result.config.min_data_points

\* A series of five days under the default configuration whose rolling
\* mean of Harris rises on both days on which it can: the first three days
\* are falling, the last two rising.
C25_Witness ==
    /\ Returned("trending_analysis")
    /\ result.config = DefaultProcessingConfig
    /\ Len(df.rows) = 5
    /\ RisingDays("Harris") = 2
    /\ \A i \in 1..3 : result.result_df.rows[i]["Harris_Trend"] = "Fallend"
    /\ IsNan(result.result_df.rows[2]["Harris_MA"])
    /\ ~IsNan(result.result_df.rows[3]["Harris_MA"])

\* C26: the state that a returned scenario report names as the tipping
\* point is a row of the table at which the electoral votes, summed in
\* ascending order of lead up to and including that row, are at least 270;
\* a table whose electoral votes total less than 270 has no such row.
C26_TippingPointReachesMajority ==
    Returned("analyze_electoral_scenarios")
    => LET order == result.df_sorted
           tp == result.scenarios.Tipping_Point
       IN  \E k \in 1..Len(order) :
              /\ tp["Staat"] = df.rows[order[k]]["Staat"]
              /\ tp["Führung"] = df.rows[order[k]]["Führung"]
              /\ tp["Wahlleute"] = df.rows[order[k]]["Wahlleute"]
              /\ RunningVotes(df, order)[k] >= MajorityThreshold

\* The sum of a count over the regions of a regional report.
SumOverReport(regional_results, field) ==
    LET regions == <<"Nordosten", "Mittlerer_Westen", "Süden", "Westen">>
    IN  SumSeq([k \in 1..Len(regions) |->
                   IF regions[k] \in DOMAIN regional_results
                   THEN regional_results[regions[k]][field]
                   ELSE 0])

\* C27: in the regional report of a table whose state names all pass
\* validate_state_names every row lies in exactly one reported region:
\* Anzahl_Staaten summed over the report is the number of rows of the
\* table and Wahlleute_Gesamt summed over the report is the table's total of
\* electoral votes.
C27_RegionsPartitionValidStates ==
    (Returned("regional_analysis")
        /\ validate_state_names(Column(df, "Staat")).is_valid)
    => /\ \A i \in 1..Len(df.rows) :
             Cardinality({region \in DOMAIN result.regional_results :
                             df.rows[i]["Staat"] \in REGIONS[region]}) = 1
       /\ SumOverReport(result.regional_results, "Anzahl_Staaten")
            = Len(df.rows)
       /\ SumOverReport(result.regional_results, "Wahlleute_Gesamt")
            = WahlleuteSum(df.rows)

\* The probabilities of the returned table are those of the given margin
\* of error: the z-score of every row is its lead over margin / 1.96; for a
\* margin of 0 that quotient is infinite for every lead other than 0, which
\* makes the chance of Harris 100 for a positive lead and 0 for a negative
\* one.
ProbabilitiesAreOfMargin(margin) ==
    \A i \in 1..Len(result.result_df.rows) :
        LET row == result.result_df.rows[i]
        IN  IF margin # 0
            THEN row["Z_Score"] = RintDiv(row["Führung"] * 19600, margin)
            ELSE /\ row["Führung"] > 0
                    => row["Harris_Gewinnchance"] = Milli(100, 0)
                 /\ row["Führung"] < 0
                    => row["Harris_Gewinnchance"] = Milli(0, 0)

\* C28: a call of calculate_winning_probability with a margin_of_error
\* computes with that margin, and a call of trending_analysis with a
\* window_size computes with that window: it fails when rolling() rejects
\* the window for being smaller than min_data_points, and the rolling means
\* of a returned table are those over the given window; the configured
\* value is used when the argument is omitted.
C28_SuppliedArgumentIsUsed ==
    /\ Returned("calculate_winning_probability")
       => IF result.margin_of_error.given
          THEN ProbabilitiesAreOfMargin(result.margin_of_error.value)
          ELSE ProbabilitiesAreOfMargin(DefaultProcessingConfig.margin_of_error)
    /\ result.op = "trending_analysis"
       => LET window == IF result.window_size.given
                        THEN result.window_size.value
                        ELSE result.config.window_size
          IN  /\ window < result.config.min_data_points
                 => result.raised = "CalculationError"
              /\ result.raised = ""
                 => \A c \in Candidates : MeansAreOverWindow(c, window)

\* C29: the property data raises ValueError when read on a processor on
\* which no call of process_data has returned yet, and otherwise returns
\* the table that the last call of process_data that returned has returned:
\* a processor is constructed without data; a call of process_data that
\* returns leaves the returned table as the data, and one that raises leaves
\* the data as they were; nothing else changes the data of a processor; and
\* reading data raises ValueError exactly when there are none and returns
\* them otherwise.
C29_DataIsLastReturnedTable ==
    /\ processor.data = NoData
    /\ [][ /\ (result.op = "none" /\ result'.op = "process_data")
              => IF result'.raised = ""
                 THEN processor'.data = Data(result'.table)
                 ELSE processor'.data = processor.data
           /\ result'.op # "process_data"
              => \/ processor'.data = processor.data
                 \/ /\ processor'.data = NoData
                    /\ result' = NoResult
                    /\ result = NoResult
           /\ (result.op = "none" /\ result'.op = "data")
              => /\ processor' = processor
                 /\ result'.raised = "ValueError" <=> processor.data = NoData
                 /\ result'.raised \in {"", "ValueError"}
                 /\ result'.raised = ""
                    => Data(result'.table) = processor.data ]_vars

\* The data are read after a call of process_data that returned a table
\* with rows and a later call that raised, the input file having been
\* replaced by one that fails validation: the table of the first call is
\* returned.
C29_Witness ==
    /\ Returned("data")
    /\ Len(result.table.rows) >= 1
    /\ result.table \notin Recomputations(input_file)
    /\ Recomputations(input_file) = {}
    /\ cache_file.state # "pickle"

\* C30: a call of process_data on an input file that is not empty and
\* holds no state line raises, and leaves the cache file as it found it,
\* so that no table without rows is returned or written to the cache.
C30_EmptyTableRejected ==
    (result.op = "process_data"
        /\ input_file.state = "text"
        /\ input_file.lines = <<>>)
    => /\ result.raised # ""
       /\ cache_file = result.cache_before
============================================================================
